---- MODULE Spec2Model ----
(***************************************************************************)
(* A model of chatapi: ChatLoop (src/chat/loop.py), the manager of the     *)
(* background asyncio event loop, and ChatSession (src/chat/session.py),   *)
(* the session message multiplexer.                                        *)
(*                                                                         *)
(* The specifications share the variables:                                 *)
(*   SpecLoop     threads racing ChatLoop.new_session / ChatLoop.stop      *)
(*   SpecLoopFair the same, with the worker thread scheduled fairly        *)
(*   SpecManagers two ChatLoop instances, each used by one thread          *)
(*   Spec         one ChatSession: caller threads, handshake, dispatch of  *)
(*                replies, close                                           *)
(*   SpecPush     one ChatSession: handshake, dispatch of data messages    *)
(*                and the messages() async generator                       *)
(*   SpecCursor   a Ready session and one messages() cursor, both loops    *)
(*                scheduled fairly                                         *)
(*   SpecAuth     one thread calling login, register, delete_messages      *)
(*   SpecContext  `async with session`: __aenter__ and close()             *)
(*   SpecNotify   notifies on a Ready session, the write may fail           *)
(*   SpecHistory  requests answered among data messages                     *)
(*   SpecEnvelope __send_message handed well-formed and malformed envelopes *)
(*   SpecReply    requests on a Ready session, replies delivered once or    *)
(*                twice; SpecReplyFair: the caller's loop scheduled fairly  *)
(*   SpecLifecycle a session entered while its ChatLoop starts and stops    *)
(*   SpecStatus   __raise_for_ctrl_status on every status code             *)
(*                                                                         *)
(* asyncio is that of Python 3.6 to 3.9 (setup.py python_requires), where  *)
(* an asyncio.Event is bound to a loop and set through call_soon_threadsafe*)
(***************************************************************************)
EXTENDS Integers, Sequences, FiniteSets, TLC

(* ------------------------------ bounds -------------------------------- *)

\* new_session calls made in SpecLoop
MaxSessions == 3
\* stop calls made in SpecLoop
MaxStops == 1
\* message ids one session allocates
MaxIds == 2
\* repeated replies the transport delivers
MaxDups == 1
\* data messages the transport delivers
MaxPush == 3
\* messages() calls made
MaxCursors == 2
\* entries of the list handed to delete_messages
MaxRanges == 2
\* new_session calls made on the second ChatLoop instance
MaxPeerSessions == 2

(* ------------------------- program constants --------------------------- *)

\* threads that use the ChatLoop manager
LoopThreads == {"t1", "t2", "t3"}
\* threads that call the ChatSession
Callers == {"c1", "c2"}
\* the value of an unowned threading.Lock
Free == "free"
\* `__next_message_id = 100`
FirstMessageId == 100
\* the id 'hello' of the ClientHi envelope, and of the reply to it
HelloId == 0
\* no id: a ClientNote carries none
NoId == -1
\* seq ids of the data messages the server pushes
SeqIds == {1, 2}

VARIABLES
    \* ---- ChatLoop
    loop,               \* ChatLoop.__loop: 0 is None, n > 0 the n-th loop created
    thread,             \* ChatLoop.__thread: "none" (None), "created", "started",
                        \* "running" (run_forever entered), "exited"
    new_session_lock,   \* owner of ChatLoop.__new_session_lock, or Free
    stop_posted,        \* loop.stop has been posted with call_soon_threadsafe
    tpc,                \* position of each manager thread
    loops_created,      \* number of asyncio.new_event_loop() calls
    threads_created,    \* number of threading.Thread(...) objects created
    sessions,           \* the loop each returned ChatSession is bound to
    stops,              \* number of stop() calls begun
    peer,               \* a second ChatLoop instance of the process: its
                        \* __loop, its __thread, the loop.stop posted to its
                        \* loop, the sessions it returned, its stop() calls,
                        \* and the position of the thread using it
    \* ---- ChatSession
    message_loop_lock,  \* owner of __message_loop_lock, or Free
    message_loop,       \* __message_loop_future and its task: "none" (None),
                        \* "scheduled", "hello_sent", "dispatching",
                        \* "cancelled", "failed"
    channel,            \* __channel: "unset" (no attribute), "open", "closed"
    stream,             \* __stream: "none" (None) or "open"
    ready_for_messages, \* __ready_for_messages (threading.Event)
    hello_replies,      \* replies to ClientHi that recv_message has returned
    next_message_id,    \* __next_message_id
    next_message_id_lock, \* owner of __next_message_id_lock, or Free
    non_data_events,    \* __non_data_events: id -> flag of the asyncio.Event
    non_data_responses, \* __non_data_responses: id -> reply
    set_posted,         \* ev.set callbacks posted and not yet run, per id
    data_event,         \* __data_event: flag of the asyncio.Event
    data_set_posted,    \* ev.set callbacks for __data_event not yet run
    data_messages,      \* __data_messages (queue.Queue), oldest first
    data_pc,            \* __handle_data_msg: "idle", "signal" when the
                        \* message is on the queue and ev.set not yet posted,
                        \* "put_blocked" when put waits on a full queue
    \* ---- the threads calling one ChatSession
    pc,                 \* position of each caller
    op,                 \* the operation each caller is in
    msgid,              \* message_id local of __send_message
    ret,                \* how the caller's operation ended
    \* ---- the messages() generator in use
    cursor,             \* "none", "new", "wait", "drain", "yield"
    \* ---- the transport, and what has happened so far
    wire,               \* envelopes written to the stream, in order, each
                        \* with the thread that wrote it ("loop": the worker)
    replied,            \* replies the transport has delivered, per id
    schedules,          \* run_coroutine_threadsafe(__message_loop) calls
    raised,             \* ev.set posts, per id
    closed,             \* a close() call has completed
    reply_pushes,       \* per id, the number of data messages the message
                        \* loop had received when it received the first
                        \* reply to that id (-1: no reply yet)
    issued,             \* ids __get_next_message_id has returned, in order
    used,               \* an operation or an `async with` entry has begun
    cancels,            \* the threads that have executed stream.cancel():
                        \* "caller" (the thread in close()), "loop"
    \* ---- login, register, delete_messages and the user_id property
    call,               \* the facade call each caller is in, and its arguments
    user_id,            \* __user_id (NoUser: None)
    auth_ok,            \* a login or register has returned normally
    after_close,        \* the caller's operation began after closed
    delivered,          \* seq ids of the data messages delivered, in order
    yielded,            \* seq ids yielded by messages(), in order
    cursors,            \* messages() calls made
    first_pull          \* data messages delivered before the first pull
                        \* of the cursor in use (-1: not pulled yet)

loopVars == <<loop, thread, new_session_lock, stop_posted, tpc, loops_created,
              threads_created, sessions, stops>>

connVars == <<message_loop_lock, message_loop, channel, stream,
              ready_for_messages, hello_replies, schedules>>

corrVars == <<next_message_id, non_data_events, non_data_responses,
              set_posted, raised>>

callerVars == <<pc, op, msgid, ret, after_close>>

pushVars == <<data_event, data_set_posted, data_messages, data_pc, delivered>>

cursorVars == <<cursor, yielded, cursors, first_pull>>

histVars == <<wire, replied, closed, reply_pushes>>

idVars == <<next_message_id_lock, issued>>

auditVars == <<used, cancels>>

authVars == <<call, user_id, auth_ok>>

sessVars == <<connVars, corrVars, callerVars, pushVars, cursorVars, histVars,
              idVars, auditVars, authVars>>

peerVars == <<peer>>

vars == <<loopVars, peerVars, sessVars>>

(* ============================== ChatLoop =============================== *)

\* threading.Lock.acquire succeeds only on an unowned lock
CanAcquire_NoLock(lk) == TRUE
CanAcquire(lk) == lk = Free

\* new_session: `with self.__new_session_lock:`
NsAcquire(t) ==
    /\ tpc[t] = "idle"
    /\ Len(sessions) + Cardinality({u \in LoopThreads : tpc[u] \in
            {"ns_locked", "ns_new_loop", "ns_new_thread", "ns_start",
             "ns_unlock", "ns_session"}}) < MaxSessions
    /\ CanAcquire(new_session_lock)
    /\ new_session_lock' = t
    /\ tpc' = [tpc EXCEPT ![t] = "ns_locked"]
    /\ UNCHANGED <<loop, thread, stop_posted, loops_created, threads_created,
                   sessions, stops>>
    /\ UNCHANGED <<peerVars, sessVars>>

\* new_session: `if self.__loop is None:`
NsCheck(t) ==
    /\ tpc[t] = "ns_locked"
    /\ IF loop = 0
       THEN /\ tpc' = [tpc EXCEPT ![t] = "ns_new_loop"]
            /\ UNCHANGED new_session_lock
       ELSE /\ tpc' = [tpc EXCEPT ![t] = "ns_session"]
            /\ new_session_lock' = Free
    /\ UNCHANGED <<loop, thread, stop_posted, loops_created, threads_created,
                   sessions, stops>>
    /\ UNCHANGED <<peerVars, sessVars>>

\* new_session: `self.__loop = asyncio.new_event_loop()`
NsNewLoop(t) ==
    /\ tpc[t] = "ns_new_loop"
    /\ loops_created' = loops_created + 1
    /\ loop' = loops_created + 1
    /\ tpc' = [tpc EXCEPT ![t] = "ns_new_thread"]
    /\ UNCHANGED <<thread, new_session_lock, stop_posted, threads_created,
                   sessions, stops>>
    /\ UNCHANGED <<peerVars, sessVars>>

\* new_session: `self.__thread = threading.Thread(target=self.__run_event_loop)`
NsNewThread(t) ==
    /\ tpc[t] = "ns_new_thread"
    /\ threads_created' = threads_created + 1
    /\ thread' = "created"
    /\ tpc' = [tpc EXCEPT ![t] = "ns_start"]
    /\ UNCHANGED <<loop, new_session_lock, stop_posted, loops_created,
                   sessions, stops>>
    /\ UNCHANGED <<peerVars, sessVars>>

\* new_session: `self.__thread.start()`
NsStartThread(t) ==
    /\ tpc[t] = "ns_start"
    /\ thread' = "started"
    /\ tpc' = [tpc EXCEPT ![t] = "ns_unlock"]
    /\ UNCHANGED <<loop, new_session_lock, stop_posted, loops_created,
                   threads_created, sessions, stops>>
    /\ UNCHANGED <<peerVars, sessVars>>

\* new_session: leaving the `with` block releases the lock
NsRelease(t) ==
    /\ tpc[t] = "ns_unlock"
    /\ new_session_lock' = Free
    /\ tpc' = [tpc EXCEPT ![t] = "ns_session"]
    /\ UNCHANGED <<loop, thread, stop_posted, loops_created, threads_created,
                   sessions, stops>>
    /\ UNCHANGED <<peerVars, sessVars>>

\* new_session: `s = session.ChatSession(host, port, self.__loop); return s`
NsSession(t) ==
    /\ tpc[t] = "ns_session"
    /\ sessions' = Append(sessions, loop)
    /\ tpc' = [tpc EXCEPT ![t] = "idle"]
    /\ UNCHANGED <<loop, thread, new_session_lock, stop_posted, loops_created,
                   threads_created, stops>>
    /\ UNCHANGED <<peerVars, sessVars>>

RunEventLoop_DropsStop ==
    /\ thread = "started"
    /\ thread' = "running"
    /\ stop_posted' = FALSE
    /\ UNCHANGED <<loop, new_session_lock, tpc, loops_created,
                   threads_created, sessions, stops>>
    /\ UNCHANGED <<peerVars, sessVars>>

\* __run_event_loop, on the worker thread: set_event_loop and enter
\* run_forever; callbacks posted before that stay in the loop's ready queue
RunEventLoop ==
    /\ thread = "started"
    /\ thread' = "running"
    /\ UNCHANGED <<loop, new_session_lock, stop_posted, tpc, loops_created,
                   threads_created, sessions, stops>>
    /\ UNCHANGED <<peerVars, sessVars>>

\* the running loop executes the posted loop.stop: run_forever returns and
\* the worker thread exits
LoopStops ==
    /\ thread = "running"
    /\ stop_posted
    /\ thread' = "exited"
    /\ UNCHANGED <<loop, new_session_lock, stop_posted, tpc, loops_created,
                   threads_created, sessions, stops>>
    /\ UNCHANGED <<peerVars, sessVars>>

StopPost_Always(t) ==
    /\ tpc[t] = "idle"
    /\ stops < MaxStops
    /\ stops' = stops + 1
    /\ stop_posted' = TRUE
    /\ tpc' = [tpc EXCEPT ![t] = "stop_join"]
    /\ UNCHANGED <<loop, thread, new_session_lock, loops_created,
                   threads_created, sessions>>
    /\ UNCHANGED <<peerVars, sessVars>>

\* stop: `if self.__loop is not None: call_soon_threadsafe(self.__loop.stop)`
StopPost(t) ==
    /\ tpc[t] = "idle"
    /\ stops < MaxStops
    /\ stops' = stops + 1
    /\ stop_posted' = (stop_posted \/ loop # 0)
    /\ tpc' = [tpc EXCEPT ![t] = "stop_join"]
    /\ UNCHANGED <<loop, thread, new_session_lock, loops_created,
                   threads_created, sessions>>
    /\ UNCHANGED <<peerVars, sessVars>>

\* stop: `if self.__thread is not None: self.__thread.join()`; join returns
\* once the thread has exited, and raises on a thread not yet started
StopJoin(t) ==
    /\ tpc[t] = "stop_join"
    /\ thread \in {"none", "exited", "created"}
    /\ tpc' = [tpc EXCEPT ![t] = IF thread = "created" THEN "stop_error" ELSE "idle"]
    /\ UNCHANGED <<loop, thread, new_session_lock, stop_posted, loops_created,
                   threads_created, sessions, stops>>
    /\ UNCHANGED <<peerVars, sessVars>>


\* ---- a second ChatLoop instance, used by one more thread

\* the thread that uses the second instance
PeerThread == "p"

\* the second instance as constructed: `__loop = None`, `__thread = None`
NoPeer == [loop |-> 0, thread |-> "none", stop_posted |-> FALSE,
           sessions |-> <<>>, stops |-> 0, pc |-> "idle"]

\* new_session on the second instance: `with self.__new_session_lock:`; the
\* lock is an attribute of the class, the one lock of all instances
PeerNsAcquire ==
    /\ peer.pc = "idle"
    /\ Len(peer.sessions) < MaxPeerSessions
    /\ CanAcquire(new_session_lock)
    /\ new_session_lock' = PeerThread
    /\ peer' = [peer EXCEPT !.pc = "ns_locked"]
    /\ UNCHANGED <<loop, thread, stop_posted, tpc, loops_created,
                   threads_created, sessions, stops>>
    /\ UNCHANGED sessVars

PeerLoopIsNone_Class == loop = 0 /\ peer.loop = 0

\* `self.__loop is None` on the second instance: __loop is assigned through
\* self, so each instance has its own
PeerLoopIsNone == peer.loop = 0

\* new_session: `if self.__loop is None:`
PeerNsCheck ==
    /\ peer.pc = "ns_locked"
    /\ IF PeerLoopIsNone
       THEN /\ peer' = [peer EXCEPT !.pc = "ns_new_loop"]
            /\ UNCHANGED new_session_lock
       ELSE /\ peer' = [peer EXCEPT !.pc = "ns_session"]
            /\ new_session_lock' = Free
    /\ UNCHANGED <<loop, thread, stop_posted, tpc, loops_created,
                   threads_created, sessions, stops>>
    /\ UNCHANGED sessVars

\* new_session: `self.__loop = asyncio.new_event_loop()`
PeerNsNewLoop ==
    /\ peer.pc = "ns_new_loop"
    /\ loops_created' = loops_created + 1
    /\ peer' = [peer EXCEPT !.loop = loops_created + 1, !.pc = "ns_new_thread"]
    /\ UNCHANGED <<loop, thread, new_session_lock, stop_posted, tpc,
                   threads_created, sessions, stops>>
    /\ UNCHANGED sessVars

\* new_session: `self.__thread = threading.Thread(...)`, `self.__thread.start()`
PeerNsStartThread ==
    /\ peer.pc = "ns_new_thread"
    /\ threads_created' = threads_created + 1
    /\ peer' = [peer EXCEPT !.thread = "started", !.pc = "ns_unlock"]
    /\ UNCHANGED <<loop, thread, new_session_lock, stop_posted, tpc,
                   loops_created, sessions, stops>>
    /\ UNCHANGED sessVars

\* new_session: leaving the `with` block releases the lock
PeerNsRelease ==
    /\ peer.pc = "ns_unlock"
    /\ new_session_lock' = Free
    /\ peer' = [peer EXCEPT !.pc = "ns_session"]
    /\ UNCHANGED <<loop, thread, stop_posted, tpc, loops_created,
                   threads_created, sessions, stops>>
    /\ UNCHANGED sessVars

\* new_session: `s = session.ChatSession(host, port, self.__loop); return s`
PeerNsSession ==
    /\ peer.pc = "ns_session"
    /\ peer' = [peer EXCEPT !.sessions = Append(@, peer.loop), !.pc = "idle"]
    /\ UNCHANGED loopVars
    /\ UNCHANGED sessVars

\* __run_event_loop on the second instance's worker thread
PeerRunEventLoop ==
    /\ peer.thread = "started"
    /\ peer' = [peer EXCEPT !.thread = "running"]
    /\ UNCHANGED loopVars
    /\ UNCHANGED sessVars

\* the second instance's loop executes the loop.stop posted to it
PeerLoopStops ==
    /\ peer.thread = "running"
    /\ peer.stop_posted
    /\ peer' = [peer EXCEPT !.thread = "exited"]
    /\ UNCHANGED loopVars
    /\ UNCHANGED sessVars

\* stop on the second instance:
\* `if self.__loop is not None: call_soon_threadsafe(self.__loop.stop)`
PeerStopPost ==
    /\ peer.pc = "idle"
    /\ peer.stops < MaxStops
    /\ peer' = [peer EXCEPT !.stops = @ + 1,
                            !.stop_posted = (@ \/ peer.loop # 0),
                            !.pc = "stop_join"]
    /\ UNCHANGED loopVars
    /\ UNCHANGED sessVars

\* stop on the second instance: `if self.__thread is not None: join()`
PeerStopJoin ==
    /\ peer.pc = "stop_join"
    /\ peer.thread \in {"none", "exited"}
    /\ peer' = [peer EXCEPT !.pc = "idle"]
    /\ UNCHANGED loopVars
    /\ UNCHANGED sessVars


(* ============================= ChatSession ============================= *)

\* ---- values

\* ids are the decimal strings of 101, 102, ...: modelled by the numbers
IdRange == (FirstMessageId + 1)..(FirstMessageId + MaxIds)

\* the ids a reply can bear: those of requests, and 'hello'
ReplyIds == IdRange \cup {HelloId}

\* the entries of ctrl.params a reply carries: none, 'user', 'token', both
ParamSets == {"none", "user", "token", "user_token"}

NoReply == [kind |-> "none", id |-> NoId, code |-> 0, text |-> "", copy |-> 0,
            params |-> "none"]

NoResult == [outcome |-> "none", text |-> "", reply |-> NoReply]

Ctrl(id, code, text, copy) ==
    [kind |-> "ctrl", id |-> id, code |-> code, text |-> text, copy |-> copy,
     params |-> "none"]

Meta(id, copy) ==
    [kind |-> "meta", id |-> id, code |-> 0, text |-> "", copy |-> copy,
     params |-> "none"]

\* the replies the server may give to request `id`
ServerReplies(id) ==
    {Ctrl(id, 200, "ok", 1), Ctrl(id, 409, "duplicate", 1),
     Ctrl(id, 500, "internal", 1), Meta(id, 1)}

\* the replies the server may give to a login or acc request `id`: accepted
\* with any of the parameter sets, rejected, or failed
AuthReplies(id) ==
    {[Ctrl(id, 200, "ok", 1) EXCEPT !.params = p] : p \in ParamSets}
    \cup {Ctrl(id, 401, "authentication failed", 1),
          Ctrl(id, 500, "internal", 1)}

\* a second reply it may send after that; `copy` tells it from the first
RepeatedReply(id) == Ctrl(id, 409, "again", 2)

\* the second replies delivered so far
Repeats == LET over(i) == IF replied[i] > 1 THEN replied[i] - 1 ELSE 0
               sum[S \in SUBSET IdRange] ==
                   IF S = {} THEN 0
                   ELSE LET i == CHOOSE x \in S : TRUE
                        IN over(i) + sum[S \ {i}]
           IN sum[IdRange]

\* a second reply to the ClientHi envelope
SecondHello == Ctrl(HelloId, 201, "hello", 2)

\* dict without a key
Without(f, k) == [x \in DOMAIN f \ {k} |-> f[x]]

\* ids of the requests written to the stream
SentRequests == {wire[i].id : i \in {j \in 1..Len(wire) : wire[j].kind = "req"}}

Goto(c, p) == pc' = [pc EXCEPT ![c] = p]

\* the operation ends: it returns (`outcome` "ok", or "returned" with the
\* reply) or raises the exception `outcome` carrying `text`
Finish(c, outcome, text, reply) ==
    /\ pc' = [pc EXCEPT ![c] = "done"]
    /\ ret' = [ret EXCEPT ![c] =
                  [outcome |-> outcome, text |-> text, reply |-> reply]]

\* callers that will still allocate a message id in their current operation
Allocating ==
    {c \in Callers : /\ op[c] \in {"request", "note"}
                     /\ pc[c] \in {"ensure", "ensure_locked", "ensure_start",
                                   "ready_wait", "alloc", "alloc_loaded"}}

\* ---- __raise_for_ctrl_status and the isinstance check before it

Returned == [outcome |-> "returned", text |-> ""]

RaiseForCtrlStatus_Off(ctrl) ==
    IF ctrl.code > 400 /\ ctrl.code < 500
    THEN [outcome |-> "Rejected", text |-> ctrl.text]
    ELSE IF ctrl.code >= 500 /\ ctrl.code <= 600
    THEN [outcome |-> "ServerError", text |-> ctrl.text]
    ELSE Returned
RaiseForCtrlStatus(ctrl) ==
    IF ctrl.code >= 400 /\ ctrl.code < 500
    THEN [outcome |-> "Rejected", text |-> ctrl.text]
    ELSE IF ctrl.code >= 500 /\ ctrl.code < 600
    THEN [outcome |-> "ServerError", text |-> ctrl.text]
    ELSE Returned

\* `if isinstance(response, pb.ServerCtrl): self.__raise_for_ctrl_status(response)`
ResponseOutcome(response) ==
    IF response.kind = "ctrl" THEN RaiseForCtrlStatus(response) ELSE Returned

\* ---- login, register, delete_messages: the checks before __send_message

\* None in __user_id
NoUser == ""

\* the kinds of value handed in as `scheme` and as `secret`; "str_badpad" is
\* a str that is not valid base64
Schemes == {"basic", "token", "anonymous", "asdf"}

SecretKinds == {"str", "str_badpad", "bytes", "none", "int"}

\* the kinds of value handed in as `messages`, and as an entry of a list
ElemKinds == {"int", "tuple", "str"}

MessageSpecs ==
    {[kind |-> k, elems |-> <<>>] : k \in ElemKinds}
    \cup {[kind |-> "list", elems |-> e] :
             e \in UNION {[1..n -> ElemKinds] : n \in 0..MaxRanges}}

NoMessages == [kind |-> "none", elems |-> <<>>]

NoCall == [name |-> "none", scheme |-> "", secret |-> "", login |-> FALSE,
           messages |-> NoMessages, uid_before |-> NoUser, cases |-> {}]

\* login: the scheme check, `secret.encode` and `base64.b64decode` of a str,
\* the type check of the secret
LoginValidation(scheme, secret) ==
    IF scheme \notin {"basic", "token"} THEN "Rejected"
    ELSE IF secret \in {"str", "str_badpad"}
    THEN IF scheme = "token" /\ secret = "str_badpad"
         THEN "BinasciiError" ELSE "send"
    ELSE IF secret # "bytes" THEN "Rejected"
    ELSE "send"

RegisterValidation_NoTypeCheck(scheme, secret) ==
    IF scheme \notin {"anonymous", "basic"} THEN "Rejected"
    ELSE "send"

\* register: the scheme check, `secret.encode` of a str, the type check of
\* the secret unless the scheme is anonymous
RegisterValidation(scheme, secret) ==
    IF scheme \notin {"anonymous", "basic"} THEN "Rejected"
    ELSE IF secret \in {"str", "str_badpad"} THEN "send"
    ELSE IF secret # "bytes" /\ scheme # "anonymous" THEN "Rejected"
    ELSE "send"

\* delete_messages, the list built from an accepted `messages`: an int m
\* becomes [(m, m + 1)] and a tuple t becomes [t]; a list is copied entry
\* by entry, a tuple as it is and an int m by `messages.append([(m, m + 1)])`.
\* "pair" is a tuple (low, hi), "list_of_pair" a one-entry list holding one
NormalisedMessages(m) ==
    IF m.kind \in {"int", "tuple"} THEN <<"pair">>
    ELSE [i \in 1..Len(m.elems) |->
             IF m.elems[i] = "int" THEN "list_of_pair" ELSE "pair"]

\* delete_messages: a `messages` that is no int, tuple or list, and a list
\* entry that is no int or tuple, raise Rejected; then `for low, hi in
\* messages` unpacks every entry of the list built, which raises ValueError
\* on a one-entry list
DeleteMessagesValidation(m) ==
    IF m.kind \in {"int", "tuple"} THEN "send"
    ELSE IF m.kind = "list"
    THEN IF \E i \in 1..Len(m.elems) : m.elems[i] \notin {"int", "tuple"}
         THEN "Rejected"
         ELSE IF \E i \in 1..Len(m.elems) : NormalisedMessages(m)[i] # "pair"
         THEN "ValueError"
         ELSE "send"
    ELSE "Rejected"

\* the caller is in a login or register call that has entered __send_message
AuthPending(c) ==
    call[c].name \in {"login", "register"} /\ op[c] = "request"

\* a facade call with its arguments checked: with the verdict "send" it
\* goes on into __send_message, otherwise it raises the verdict
FacadeCall(c, args, verdict) ==
    /\ pc[c] = "idle"
    /\ call' = [call EXCEPT ![c] = args]
    /\ after_close' = [after_close EXCEPT ![c] = closed]
    /\ IF verdict = "send"
       THEN /\ (next_message_id - FirstMessageId) + Cardinality(Allocating) < MaxIds
            /\ op' = [op EXCEPT ![c] = "request"]
            /\ used' = TRUE
            /\ Goto(c, "ensure")
            /\ UNCHANGED ret
       ELSE /\ op' = [op EXCEPT ![c] = "invalid"]
            /\ Finish(c, verdict, "", NoReply)
            /\ UNCHANGED used
    /\ UNCHANGED <<msgid, cancels, user_id, auth_ok>>
    /\ UNCHANGED <<loopVars, peerVars, idVars, connVars, corrVars, pushVars, cursorVars,
                   histVars>>

Login(c, scheme, secret) ==
    FacadeCall(c, [NoCall EXCEPT !.name = "login", !.scheme = scheme,
                                 !.secret = secret],
               LoginValidation(scheme, secret))

RegisterAccount(c, scheme, secret, login) ==
    FacadeCall(c, [NoCall EXCEPT !.name = "register", !.scheme = scheme,
                                 !.secret = secret, !.login = login],
               RegisterValidation(scheme, secret))

DeleteMessages(c, m) ==
    FacadeCall(c, [NoCall EXCEPT !.name = "delete_messages", !.messages = m],
               DeleteMessagesValidation(m))

\* login / register after __send_message: an exception goes on to the
\* caller; of a returned ctrl, `self.__user_id = json.loads(
\* ctrl.params['user'].decode('utf-8'))`, then `token = ctrl.params['token']`
\* and `json.loads(token.decode('utf-8'))`; a missing entry reads as b'',
\* which json.loads refuses
AuthReturn(c) ==
    /\ pc[c] = "done"
    /\ AuthPending(c)
    /\ LET r == ret[c].reply
           hasUser == r.params \in {"user", "user_token"}
           hasToken == r.params \in {"token", "user_token"}
           final == IF ret[c].outcome # "returned" THEN ret[c].outcome
                    ELSE IF ~hasUser \/ ~hasToken THEN "JSONDecodeError"
                    ELSE "ok"
       IN /\ user_id' = IF ret[c].outcome = "returned" /\ hasUser
                        THEN "usr1" ELSE user_id
          /\ auth_ok' = (auth_ok \/ final = "ok")
          /\ ret' = [ret EXCEPT ![c].outcome = final]
    /\ call' = [call EXCEPT ![c].uid_before = user_id]
    /\ Goto(c, "auth_done")
    /\ UNCHANGED <<op, msgid, after_close>>
    /\ UNCHANGED <<loopVars, peerVars, idVars, auditVars, connVars, corrVars, pushVars,
                   cursorVars, histVars>>

\* the user_id property: `if self.__user_id is None: raise RuntimeError`
UserId == IF user_id = NoUser THEN "RuntimeError" ELSE user_id

\* ---- the public operations, as far as __send_message

\* __send_message called with an envelope of the caller's own making
SendCall(c, cases, no_response) ==
    /\ pc[c] = "idle"
    /\ (next_message_id - FirstMessageId) + Cardinality(Allocating) < MaxIds
    /\ call' = [call EXCEPT ![c] = [NoCall EXCEPT !.name = "send",
                                                  !.cases = cases]]
    /\ op' = [op EXCEPT ![c] = IF no_response THEN "note" ELSE "request"]
    /\ after_close' = [after_close EXCEPT ![c] = closed]
    /\ Goto(c, "ensure")
    /\ used' = TRUE
    /\ UNCHANGED <<msgid, ret, cancels, user_id, auth_ok>>
    /\ UNCHANGED <<loopVars, peerVars, idVars, connVars, corrVars, pushVars, cursorVars,
                   histVars>>

\* a facade operation that expects a response (login, subscribe, publish, ...)
Request(c) ==
    /\ pc[c] = "idle"
    /\ (next_message_id - FirstMessageId) + Cardinality(Allocating) < MaxIds
    /\ op' = [op EXCEPT ![c] = "request"]
    /\ after_close' = [after_close EXCEPT ![c] = closed]
    /\ Goto(c, "ensure")
    /\ UNCHANGED <<msgid, ret>>
    /\ used' = TRUE
    /\ UNCHANGED cancels
    /\ UNCHANGED <<loopVars, peerVars, authVars, idVars, connVars, corrVars, pushVars, cursorVars, histVars>>

\* notify_key_press / notify_received / notify_read: no_response=True
Notify(c) ==
    /\ pc[c] = "idle"
    /\ (next_message_id - FirstMessageId) + Cardinality(Allocating) < MaxIds
    /\ op' = [op EXCEPT ![c] = "note"]
    /\ after_close' = [after_close EXCEPT ![c] = closed]
    /\ Goto(c, "ensure")
    /\ UNCHANGED <<msgid, ret>>
    /\ used' = TRUE
    /\ UNCHANGED cancels
    /\ UNCHANGED <<loopVars, peerVars, authVars, idVars, connVars, corrVars, pushVars, cursorVars, histVars>>

\* __aenter__: only __ensure_message_loop_started
Enter(c) ==
    /\ pc[c] = "idle"
    /\ op' = [op EXCEPT ![c] = "enter"]
    /\ after_close' = [after_close EXCEPT ![c] = closed]
    /\ Goto(c, "ensure")
    /\ UNCHANGED <<msgid, ret>>
    /\ used' = TRUE
    /\ UNCHANGED cancels
    /\ UNCHANGED <<loopVars, peerVars, authVars, idVars, connVars, corrVars, pushVars, cursorVars, histVars>>

\* ---- __ensure_message_loop_started

\* `with self.__message_loop_lock:`
EnsureAcquire(c) ==
    /\ pc[c] = "ensure"
    /\ CanAcquire(message_loop_lock)
    /\ message_loop_lock' = c
    /\ Goto(c, "ensure_locked")
    /\ UNCHANGED <<message_loop, channel, stream, ready_for_messages, hello_replies,
                   schedules>>
    /\ UNCHANGED <<op, msgid, ret, after_close>>
    /\ UNCHANGED <<loopVars, peerVars, authVars, idVars, auditVars, corrVars, pushVars, cursorVars, histVars>>

\* `self.__message_loop_future is None`
FutureIsNone_OrDone(ml) == ml \in {"none", "cancelled", "failed"}
FutureIsNone(ml) == ml = "none"

\* `if self.__message_loop_future is None:`; otherwise the lock is released
EnsureCheck(c) ==
    /\ pc[c] = "ensure_locked"
    /\ IF FutureIsNone(message_loop)
       THEN /\ Goto(c, "ensure_start")
            /\ UNCHANGED message_loop_lock
       ELSE /\ Goto(c, "ready_wait")
            /\ message_loop_lock' = Free
    /\ UNCHANGED <<message_loop, channel, stream, ready_for_messages, hello_replies,
                   schedules>>
    /\ UNCHANGED <<op, msgid, ret, after_close>>
    /\ UNCHANGED <<loopVars, peerVars, authVars, idVars, auditVars, corrVars, pushVars, cursorVars, histVars>>

\* the text of the RuntimeError of __ensure_message_loop_started
NotRunning == "Supplied event loop is not running"

\* `if not loop.is_running(): raise RuntimeError(...)`, else
\* `self.__message_loop_future = asyncio.run_coroutine_threadsafe(...)`
EnsureStart(c) ==
    /\ pc[c] = "ensure_start"
    /\ message_loop_lock' = Free
    /\ IF thread # "running"
       THEN /\ Finish(c, "RuntimeError", NotRunning, NoReply)
            /\ UNCHANGED <<message_loop, schedules>>
       ELSE /\ message_loop' = "scheduled"
            /\ schedules' = schedules + 1
            /\ Goto(c, "ready_wait")
            /\ UNCHANGED ret
    /\ UNCHANGED <<channel, stream, ready_for_messages, hello_replies>>
    /\ UNCHANGED <<op, msgid, after_close>>
    /\ UNCHANGED <<loopVars, peerVars, authVars, idVars, auditVars, corrVars, pushVars, cursorVars, histVars>>

\* `self.__ready_for_messages.wait()` returns; __aenter__ then returns
AwaitReady(c) ==
    /\ pc[c] = "ready_wait"
    /\ ready_for_messages
    /\ IF op[c] = "enter"
       THEN Finish(c, "ok", "", NoReply)
       ELSE Goto(c, "alloc") /\ UNCHANGED ret
    /\ UNCHANGED <<op, msgid, after_close>>
    /\ UNCHANGED <<loopVars, peerVars, authVars, idVars, auditVars, connVars, corrVars, pushVars, cursorVars, histVars>>

\* ---- __send_message after the readiness gate

\* __get_next_message_id: `with self.__next_message_id_lock:` and the first
\* half of `self.__next_message_id += 1`: the attribute is read and one is
\* added; the sum is held by the thread
IdLoad(c) ==
    /\ pc[c] = "alloc"
    /\ CanAcquire(next_message_id_lock)
    /\ next_message_id_lock' = c
    /\ msgid' = [msgid EXCEPT ![c] = next_message_id + 1]
    /\ Goto(c, "alloc_loaded")
    /\ UNCHANGED issued
    /\ UNCHANGED <<op, ret, after_close>>
    /\ UNCHANGED <<loopVars, peerVars, authVars, auditVars, connVars, corrVars, pushVars,
                   cursorVars, histVars>>

\* `self.__next_message_id += 1`, second half: the sum is stored; then
\* `return str(self.__next_message_id)` and the lock is released
GetNextMessageId(c) ==
    /\ pc[c] = "alloc_loaded"
    /\ next_message_id' = msgid[c]
    /\ issued' = Append(issued, msgid[c])
    /\ next_message_id_lock' =
          IF next_message_id_lock = c THEN Free ELSE next_message_id_lock
    /\ Goto(c, "stamp")
    /\ UNCHANGED <<non_data_events, non_data_responses, set_posted, raised>>
    /\ UNCHANGED <<op, msgid, ret, after_close>>
    /\ UNCHANGED <<loopVars, peerVars, authVars, auditVars, connVars, pushVars, cursorVars, histVars>>

\* the fields __set_message_id looks at: the request cases, which carry an
\* id, and 'note', which has none
RequestFields == {"hi", "acc", "login", "sub", "leave", "pub", "get", "set", "del"}

NoteField == "note"

\* the populated cases of the pb.ClientMsg the caller's operation has built:
\* every facade operation populates one; a direct __send_message call hands
\* in its own
PopulatedCases(c) ==
    IF call[c].name = "send" THEN call[c].cases
    ELSE IF op[c] = "note" THEN {NoteField}
    ELSE IF call[c].name = "login" THEN {"login"}
    ELSE IF call[c].name = "register" THEN {"acc"}
    ELSE IF call[c].name = "delete_messages" THEN {"del"}
    ELSE {"pub"}

SetMessageId_Lenient(cases) == "ok"

\* __set_message_id: the id is stamped into every populated request case;
\* the second one found raises 'Too many message types', and none found
\* raises 'No message types' unless 'note' is populated
SetMessageId(cases) ==
    IF Cardinality(cases \cap RequestFields) > 1 THEN "TooMany"
    ELSE IF cases \cap RequestFields = {} /\ NoteField \notin cases
    THEN "NoTypes"
    ELSE "ok"

Register_Always(c) ==
    /\ pc[c] = "stamp"
    /\ non_data_events' = (msgid[c] :> FALSE) @@ non_data_events
    /\ Goto(c, "send")
    /\ UNCHANGED <<next_message_id, non_data_responses, set_posted, raised>>
    /\ UNCHANGED <<op, msgid, ret, after_close>>
    /\ UNCHANGED <<loopVars, peerVars, authVars, idVars, auditVars, connVars, pushVars, cursorVars, histVars>>

Register_Never(c) ==
    /\ pc[c] = "stamp"
    /\ Goto(c, "send")
    /\ UNCHANGED <<next_message_id, non_data_events, non_data_responses,
                   set_posted, raised>>
    /\ UNCHANGED <<op, msgid, ret, after_close>>
    /\ UNCHANGED <<loopVars, peerVars, authVars, idVars, auditVars, connVars, pushVars, cursorVars, histVars>>

\* `self.__set_message_id(message, message_id)`, whose RuntimeError ends
\* the call, then
\* `if not no_response: self.__non_data_events[message_id] = Event()`
Register(c) ==
    /\ pc[c] = "stamp"
    /\ IF SetMessageId(PopulatedCases(c)) # "ok"
       THEN /\ Finish(c, "RuntimeError", SetMessageId(PopulatedCases(c)), NoReply)
            /\ UNCHANGED non_data_events
       ELSE /\ non_data_events' =
                  IF op[c] = "request"
                  THEN (msgid[c] :> FALSE) @@ non_data_events
                  ELSE non_data_events
            /\ Goto(c, "send")
            /\ UNCHANGED ret
    /\ UNCHANGED <<next_message_id, non_data_responses, set_posted, raised>>
    /\ UNCHANGED <<op, msgid, after_close>>
    /\ UNCHANGED <<loopVars, peerVars, authVars, idVars, auditVars, connVars, pushVars, cursorVars, histVars>>

\* the envelope __send_message hands to the stream; `ctx` is the thread
\* that executes the write: "caller", the thread awaiting the operation
Envelope(c) ==
    IF PopulatedCases(c) \cap RequestFields # {}
    THEN [kind |-> "req", id |-> msgid[c], ctx |-> "caller"]
    ELSE [kind |-> "note", id |-> NoId, ctx |-> "caller"]

\* `await self.__stream.send_message(message)` on the open stream, then
\* `if no_response: return`
SendMessage(c) ==
    /\ pc[c] = "send"
    /\ stream = "open"
    /\ message_loop # "failed"
    /\ wire' = Append(wire, Envelope(c))
    /\ IF op[c] = "note"
       THEN Finish(c, "ok", "", NoReply)
       ELSE Goto(c, "await") /\ UNCHANGED ret
    /\ UNCHANGED <<replied, closed, reply_pushes>>
    /\ UNCHANGED <<op, msgid, after_close>>
    /\ UNCHANGED <<loopVars, peerVars, authVars, idVars, auditVars, connVars, corrVars, pushVars, cursorVars>>

\* the write fails: the transport has lost the connection and
\* `await self.__stream.send_message(message)` raises
SendFails(c) ==
    /\ pc[c] = "send"
    /\ stream = "open"
    /\ message_loop # "failed"
    /\ Finish(c, "StreamError", "", NoReply)
    /\ UNCHANGED <<op, msgid, after_close>>
    /\ UNCHANGED <<loopVars, peerVars, authVars, idVars, auditVars, connVars, corrVars, pushVars, cursorVars, histVars>>

\* `self.__stream` is None (close() has run): AttributeError
SendNoStream(c) ==
    /\ pc[c] = "send"
    /\ stream = "none"
    /\ Finish(c, "AttributeError", "", NoReply)
    /\ UNCHANGED <<op, msgid, after_close>>
    /\ UNCHANGED <<loopVars, peerVars, authVars, idVars, auditVars, connVars, corrVars, pushVars, cursorVars, histVars>>

\* `self.__stream` is the stream of a message loop that has ended with an
\* exception: `async with ... as stream` has closed it, the write raises
SendDeadStream(c) ==
    /\ pc[c] = "send"
    /\ stream = "open"
    /\ message_loop = "failed"
    /\ Finish(c, "StreamError", "", NoReply)
    /\ UNCHANGED <<op, msgid, after_close>>
    /\ UNCHANGED <<loopVars, peerVars, authVars, idVars, auditVars, connVars, corrVars, pushVars, cursorVars, histVars>>

AwaitEvent_NoWait(c) ==
    /\ pc[c] = "await"
    /\ msgid[c] \in DOMAIN non_data_events
    /\ non_data_events' = Without(non_data_events, msgid[c])
    /\ Goto(c, "pop")
    /\ UNCHANGED <<next_message_id, non_data_responses, set_posted, raised>>
    /\ UNCHANGED <<op, msgid, ret, after_close>>
    /\ UNCHANGED <<loopVars, peerVars, authVars, idVars, auditVars, connVars, pushVars, cursorVars, histVars>>

\* `await self.__non_data_events[message_id].wait()` returns, then
\* `del self.__non_data_events[message_id]`
AwaitEvent(c) ==
    /\ pc[c] = "await"
    /\ msgid[c] \in DOMAIN non_data_events
    /\ non_data_events[msgid[c]]
    /\ non_data_events' = Without(non_data_events, msgid[c])
    /\ Goto(c, "pop")
    /\ UNCHANGED <<next_message_id, non_data_responses, set_posted, raised>>
    /\ UNCHANGED <<op, msgid, ret, after_close>>
    /\ UNCHANGED <<loopVars, peerVars, authVars, idVars, auditVars, connVars, pushVars, cursorVars, histVars>>

\* `response = self.__non_data_responses.pop(message_id)`, the status check
\* of a ServerCtrl, `return response`
PopResponse(c) ==
    /\ pc[c] = "pop"
    /\ IF msgid[c] \in DOMAIN non_data_responses
       THEN /\ Finish(c, ResponseOutcome(non_data_responses[msgid[c]]).outcome,
                      ResponseOutcome(non_data_responses[msgid[c]]).text,
                      non_data_responses[msgid[c]])
            /\ non_data_responses' = Without(non_data_responses, msgid[c])
       ELSE /\ Finish(c, "KeyError", "", NoReply)
            /\ UNCHANGED non_data_responses
    /\ UNCHANGED <<next_message_id, non_data_events, set_posted, raised>>
    /\ UNCHANGED <<op, msgid, after_close>>
    /\ UNCHANGED <<loopVars, peerVars, authVars, idVars, auditVars, connVars, pushVars, cursorVars, histVars>>

\* the operation has returned or raised; the caller goes on
Return(c) ==
    /\ \/ pc[c] = "done" /\ ~AuthPending(c)
       \/ pc[c] = "auth_done"
    /\ call' = [call EXCEPT ![c] = NoCall]
    /\ UNCHANGED <<user_id, auth_ok>>
    /\ pc' = [pc EXCEPT ![c] = "idle"]
    /\ op' = [op EXCEPT ![c] = "none"]
    /\ msgid' = [msgid EXCEPT ![c] = NoId]
    /\ ret' = [ret EXCEPT ![c] = NoResult]
    /\ after_close' = [after_close EXCEPT ![c] = FALSE]
    /\ UNCHANGED <<loopVars, peerVars, idVars, auditVars, connVars, corrVars, pushVars, cursorVars, histVars>>

\* ---- close

\* close() is called
Close(c) ==
    /\ pc[c] = "idle"
    /\ op' = [op EXCEPT ![c] = "close"]
    /\ after_close' = [after_close EXCEPT ![c] = closed]
    /\ Goto(c, "close_stream")
    /\ UNCHANGED <<msgid, ret>>
    /\ UNCHANGED <<loopVars, peerVars, authVars, idVars, auditVars, connVars, corrVars, pushVars, cursorVars, histVars>>

\* `if self.__stream is not None: await self.__stream.cancel();
\* self.__stream = None`
CloseStream(c) ==
    /\ pc[c] = "close_stream"
    /\ stream' = "none"
    /\ Goto(c, "close_channel")
    /\ UNCHANGED <<message_loop_lock, message_loop, channel, ready_for_messages,
                   hello_replies, schedules>>
    /\ UNCHANGED <<op, msgid, ret, after_close>>
    /\ cancels' = IF stream # "none" THEN cancels \cup {"caller"} ELSE cancels
    /\ UNCHANGED used
    /\ UNCHANGED <<loopVars, peerVars, authVars, idVars, corrVars, pushVars, cursorVars, histVars>>

\* `if self.__channel is not None: self.__channel.close()`; the attribute
\* exists only once __message_loop has begun: AttributeError before that
CloseChannel(c) ==
    /\ pc[c] = "close_channel"
    /\ IF channel = "unset"
       THEN /\ Finish(c, "AttributeError", "", NoReply)
            /\ UNCHANGED channel
       ELSE /\ channel' = "closed"
            /\ Goto(c, "close_future")
            /\ UNCHANGED ret
    /\ UNCHANGED <<message_loop_lock, message_loop, stream, ready_for_messages,
                   hello_replies, schedules>>
    /\ UNCHANGED <<op, msgid, after_close>>
    /\ UNCHANGED <<loopVars, peerVars, authVars, idVars, auditVars, corrVars, pushVars, cursorVars, histVars>>

CloseFuture_DropPending(c) ==
    /\ pc[c] = "close_future"
    /\ message_loop' =
          IF message_loop \in {"scheduled", "hello_sent", "dispatching"}
          THEN "cancelled"
          ELSE message_loop
    /\ closed' = TRUE
    /\ non_data_events' = <<>>
    /\ Finish(c, "ok", "", NoReply)
    /\ UNCHANGED <<message_loop_lock, channel, stream, ready_for_messages,
                   hello_replies, schedules>>
    /\ UNCHANGED <<op, msgid, after_close>>
    /\ UNCHANGED <<wire, replied, reply_pushes>>
    /\ UNCHANGED <<next_message_id, non_data_responses, set_posted, raised>>
    /\ UNCHANGED <<loopVars, peerVars, authVars, idVars, auditVars, pushVars, cursorVars>>

\* `if self.__message_loop_future is not None: self.__message_loop_future.cancel()`
CloseFuture(c) ==
    /\ pc[c] = "close_future"
    /\ message_loop' =
          IF message_loop \in {"scheduled", "hello_sent", "dispatching"}
          THEN "cancelled"
          ELSE message_loop
    /\ closed' = TRUE
    /\ Finish(c, "ok", "", NoReply)
    /\ UNCHANGED <<message_loop_lock, channel, stream, ready_for_messages,
                   hello_replies, schedules>>
    /\ UNCHANGED <<op, msgid, after_close>>
    /\ UNCHANGED <<wire, replied, reply_pushes>>
    /\ UNCHANGED <<loopVars, peerVars, authVars, idVars, auditVars, corrVars, pushVars, cursorVars>>

\* ---- __message_loop, on the chat event loop

MessageLoopConnect_ReadyEarly ==
    /\ message_loop = "scheduled"
    /\ thread = "running"
    /\ channel' = "open"
    /\ wire' = Append(wire, [kind |-> "hi", id |-> HelloId, ctx |-> "loop"])
    /\ message_loop' = "hello_sent"
    /\ stream' = "open"
    /\ ready_for_messages' = TRUE
    /\ UNCHANGED <<message_loop_lock, hello_replies, schedules>>
    /\ UNCHANGED <<replied, closed, reply_pushes>>
    /\ UNCHANGED <<loopVars, peerVars, authVars, idVars, auditVars, corrVars, callerVars, pushVars, cursorVars>>

\* the scheduled coroutine starts: the channel is created, the stream is
\* opened and the ClientHi envelope is sent
MessageLoopConnect ==
    /\ message_loop = "scheduled"
    /\ thread = "running"
    /\ channel' = "open"
    /\ wire' = Append(wire, [kind |-> "hi", id |-> HelloId, ctx |-> "loop"])
    /\ message_loop' = "hello_sent"
    /\ UNCHANGED <<message_loop_lock, stream, ready_for_messages, hello_replies,
                   schedules>>
    /\ UNCHANGED <<replied, closed, reply_pushes>>
    /\ UNCHANGED <<loopVars, peerVars, authVars, idVars, auditVars, corrVars, callerVars, pushVars, cursorVars>>

\* `hi_resp = await stream.recv_message()` returns the one reply, then
\* `self.__stream = stream; self.__ready_for_messages.set()`
MessageLoopReady ==
    /\ message_loop = "hello_sent"
    /\ thread = "running"
    /\ channel = "open"
    /\ stream' = "open"
    /\ ready_for_messages' = TRUE
    /\ hello_replies' = hello_replies + 1
    /\ message_loop' = "dispatching"
    /\ UNCHANGED <<message_loop_lock, channel, schedules>>
    /\ UNCHANGED <<loopVars, peerVars, authVars, idVars, auditVars, corrVars, callerVars, pushVars, cursorVars, histVars>>

\* `async for msg in stream:` yields a message; the loop is back from the
\* handler of the one before
Dispatching ==
    /\ message_loop = "dispatching"
    /\ thread = "running"
    /\ stream = "open"
    /\ data_pc = "idle"

\* `self.__non_data_responses[ctrl.id] = ctrl`
StoreResponse_Skip(responses, r) == responses
StoreResponse_Shared(responses, r) ==
    [k \in DOMAIN responses \cup {r.id} |-> r]
StoreResponse(responses, r) == (r.id :> r) @@ responses

\* __handle_ctrl_msg / __handle_meta_msg (the same three statements):
\* store the response, look the event up (KeyError ends the message loop
\* when there is none), post ev.set to the event's loop
HandleNonDataMsg(r) ==
    /\ non_data_responses' = StoreResponse(non_data_responses, r)
    /\ IF r.id \in DOMAIN non_data_events
       THEN /\ set_posted' = [set_posted EXCEPT ![r.id] = @ + 1]
            /\ raised' = [raised EXCEPT ![r.id] = @ + 1]
            /\ UNCHANGED message_loop
       ELSE /\ message_loop' = "failed"
            /\ UNCHANGED <<set_posted, raised>>
    /\ UNCHANGED <<next_message_id, non_data_events>>
    /\ UNCHANGED <<message_loop_lock, channel, stream, ready_for_messages,
                   hello_replies, schedules>>

\* the server's reply to a request it has received
DeliverReply(r) ==
    /\ Dispatching
    /\ r.id \in SentRequests
    /\ replied[r.id] = 0
    /\ replied' = [replied EXCEPT ![r.id] = 1]
    /\ reply_pushes' = [reply_pushes EXCEPT ![r.id] = Len(delivered)]
    /\ HandleNonDataMsg(r)
    /\ UNCHANGED <<wire, closed>>
    /\ UNCHANGED <<loopVars, peerVars, authVars, idVars, auditVars, callerVars, pushVars, cursorVars>>

\* a second reply bearing the id of a request already replied to
DeliverDuplicate(r) ==
    /\ Dispatching
    /\ r.id \in SentRequests
    /\ replied[r.id] >= 1
    /\ Repeats < MaxDups
    /\ replied' = [replied EXCEPT ![r.id] = @ + 1]
    /\ HandleNonDataMsg(r)
    /\ UNCHANGED <<wire, closed, reply_pushes>>
    /\ UNCHANGED <<loopVars, peerVars, authVars, idVars, auditVars, callerVars, pushVars, cursorVars>>

\* a ctrl message bearing an id no request carries ('hello')
DeliverUnknown(r) ==
    /\ Dispatching
    /\ r.id = HelloId
    /\ replied' = [replied EXCEPT ![r.id] = @ + 1]
    /\ HandleNonDataMsg(r)
    /\ UNCHANGED <<wire, closed, reply_pushes>>
    /\ UNCHANGED <<loopVars, peerVars, authVars, idVars, auditVars, callerVars, pushVars, cursorVars>>

\* a message of a kind the loop does not handle (pres, info): skipped
DeliverOther ==
    /\ Dispatching
    /\ UNCHANGED vars

RunSetCallback_Lost(id) ==
    /\ set_posted[id] > 0
    /\ set_posted' = [set_posted EXCEPT ![id] = @ - 1]
    /\ UNCHANGED <<next_message_id, non_data_events, non_data_responses, raised>>
    /\ UNCHANGED <<loopVars, peerVars, authVars, idVars, auditVars, connVars, callerVars, pushVars, cursorVars, histVars>>

\* the caller's event loop runs a posted ev.set
RunSetCallback(id) ==
    /\ set_posted[id] > 0
    /\ set_posted' = [set_posted EXCEPT ![id] = @ - 1]
    /\ non_data_events' =
          IF id \in DOMAIN non_data_events
          THEN [non_data_events EXCEPT ![id] = TRUE]
          ELSE non_data_events
    /\ UNCHANGED <<next_message_id, non_data_responses, raised>>
    /\ UNCHANGED <<loopVars, peerVars, authVars, idVars, auditVars, connVars, callerVars, pushVars, cursorVars, histVars>>

\* ---- data messages and messages()

Put_Lost(q, m) == q

\* `self.__data_messages.put(DataMessage(data))`
Put(q, m) == Append(q, m)

\* `self.__data_messages.get_nowait()` takes the oldest entry
GetNowait_Peek(q) == [msg |-> Head(q), rest |-> q]
GetNowait_Newest(q) == [msg |-> q[Len(q)], rest |-> SubSeq(q, 1, Len(q) - 1)]
GetNowait(q) == [msg |-> Head(q), rest |-> Tail(q)]

QueueFull_Bounded(q) == Len(q) >= 1

\* `queue.Queue()` has maxsize 0: the queue is never full
QueueFull(q) == FALSE

\* __handle_data_msg, first statement: put the message on the queue; put
\* blocks the thread of the chat event loop while the queue is full
DeliverData(seq) ==
    /\ Dispatching
    /\ Len(delivered) < MaxPush
    /\ delivered' = Append(delivered, seq)
    /\ IF QueueFull(data_messages)
       THEN /\ data_pc' = "put_blocked"
            /\ UNCHANGED data_messages
       ELSE /\ data_messages' = Put(data_messages, seq)
            /\ data_pc' = "signal"
    /\ UNCHANGED <<data_event, data_set_posted>>
    /\ UNCHANGED <<loopVars, peerVars, authVars, idVars, auditVars, connVars, corrVars, callerVars, cursorVars, histVars>>

\* __handle_data_msg, the rest: `ev._loop.call_soon_threadsafe(ev.set)` on
\* __data_event; the consumer's thread may run between the two
SignalData_Direct ==
    /\ data_pc = "signal"
    /\ data_pc' = "idle"
    /\ data_event' = TRUE
    /\ UNCHANGED <<data_set_posted, data_messages, delivered>>
    /\ UNCHANGED <<loopVars, peerVars, authVars, idVars, auditVars, connVars, corrVars, callerVars, cursorVars, histVars>>

SignalData ==
    /\ data_pc = "signal"
    /\ data_pc' = "idle"
    /\ data_set_posted' = data_set_posted + 1
    /\ UNCHANGED <<data_event, data_messages, delivered>>
    /\ UNCHANGED <<loopVars, peerVars, authVars, idVars, auditVars, connVars, corrVars, callerVars, cursorVars, histVars>>

\* the consumer's event loop runs a posted ev.set of __data_event
RunDataSetCallback ==
    /\ data_set_posted > 0
    /\ data_set_posted' = data_set_posted - 1
    /\ data_event' = TRUE
    /\ UNCHANGED <<data_messages, data_pc, delivered>>
    /\ UNCHANGED <<loopVars, peerVars, authVars, idVars, auditVars, connVars, corrVars, callerVars, cursorVars, histVars>>

\* `session.messages()`: a new generator; the one in use before, if any, is
\* abandoned where it is suspended (at the wait or at `yield msg`)
Messages ==
    /\ cursors < MaxCursors
    /\ cursor # "drain"
    /\ cursors' = cursors + 1
    /\ cursor' = "new"
    /\ first_pull' = -1
    /\ UNCHANGED yielded
    /\ UNCHANGED <<loopVars, peerVars, authVars, idVars, auditVars, connVars, corrVars, callerVars, pushVars, histVars>>

\* the first `session.messages()` call of the session
OpenCursor ==
    /\ cursors = 0
    /\ Messages

Pull_OnePerWake ==
    /\ cursor \in {"new", "yield"}
    /\ cursor' = "wait"
    /\ first_pull' = IF cursor = "new" THEN Len(delivered) ELSE first_pull
    /\ UNCHANGED <<yielded, cursors>>
    /\ UNCHANGED <<loopVars, peerVars, authVars, idVars, auditVars, connVars, corrVars, callerVars, pushVars, histVars>>

\* `__anext__()`: a new generator runs to its first wait, one suspended at
\* `yield msg` resumes the inner loop
Pull ==
    /\ cursor \in {"new", "yield"}
    /\ cursor' = IF cursor = "new" THEN "wait" ELSE "drain"
    /\ first_pull' = IF cursor = "new" THEN Len(delivered) ELSE first_pull
    /\ UNCHANGED <<yielded, cursors>>
    /\ UNCHANGED <<loopVars, peerVars, authVars, idVars, auditVars, connVars, corrVars, callerVars, pushVars, histVars>>

\* `await self.__data_event.wait()` returns; `self.__data_event.clear()`
WaitDataEvent ==
    /\ cursor = "wait"
    /\ data_event
    /\ data_event' = FALSE
    /\ cursor' = "drain"
    /\ UNCHANGED <<data_set_posted, data_messages, data_pc, delivered>>
    /\ UNCHANGED <<yielded, cursors, first_pull>>
    /\ UNCHANGED <<loopVars, peerVars, authVars, idVars, auditVars, connVars, corrVars, callerVars, histVars>>

\* the inner loop: `msg = get_nowait(); yield msg`, or queue.Empty and back
\* to the wait
Drain ==
    /\ cursor = "drain"
    /\ IF data_messages # <<>>
       THEN /\ yielded' = Append(yielded, GetNowait(data_messages).msg)
            /\ data_messages' = GetNowait(data_messages).rest
            /\ cursor' = "yield"
       ELSE /\ cursor' = "wait"
            /\ UNCHANGED <<yielded, data_messages>>
    /\ UNCHANGED <<data_event, data_set_posted, data_pc, delivered>>
    /\ UNCHANGED <<cursors, first_pull>>
    /\ UNCHANGED <<loopVars, peerVars, authVars, idVars, auditVars, connVars, corrVars, callerVars, histVars>>

(* =========================== specifications ============================ *)

InitConnection_Eager ==
    /\ message_loop_lock = Free
    /\ message_loop = "scheduled"
    /\ channel = "unset"
    /\ stream = "none"
    /\ ready_for_messages = FALSE
    /\ hello_replies = 0
    /\ schedules = 1

\* the connection fields as __init__ leaves them: `self.__stream = None`,
\* `self.__message_loop_future = None`, a clear __ready_for_messages, and
\* no __channel attribute
InitConnection ==
    /\ message_loop_lock = Free
    /\ message_loop = "none"
    /\ channel = "unset"
    /\ stream = "none"
    /\ ready_for_messages = FALSE
    /\ hello_replies = 0
    /\ schedules = 0

\* a ChatSession as __init__ leaves it, with no caller in it
InitSession ==
    /\ InitConnection
    /\ next_message_id = FirstMessageId
    /\ non_data_events = <<>>
    /\ non_data_responses = <<>>
    /\ set_posted = [i \in ReplyIds |-> 0]
    /\ raised = [i \in ReplyIds |-> 0]
    /\ pc = [c \in Callers |-> "idle"]
    /\ op = [c \in Callers |-> "none"]
    /\ msgid = [c \in Callers |-> NoId]
    /\ ret = [c \in Callers |-> NoResult]
    /\ after_close = [c \in Callers |-> FALSE]
    /\ data_event = FALSE
    /\ data_set_posted = 0
    /\ data_messages = <<>>
    /\ data_pc = "idle"
    /\ delivered = <<>>
    /\ cursor = "none"
    /\ yielded = <<>>
    /\ cursors = 0
    /\ first_pull = -1
    /\ wire = <<>>
    /\ replied = [i \in ReplyIds |-> 0]
    /\ closed = FALSE
    /\ reply_pushes = [i \in ReplyIds |-> -1]
    /\ next_message_id_lock = Free
    /\ issued = <<>>
    /\ used = FALSE
    /\ cancels = {}
    /\ call = [c \in Callers |-> NoCall]
    /\ user_id = NoUser
    /\ auth_ok = FALSE

\* a ChatLoop as constructed
InitManager ==
    /\ loop = 0
    /\ thread = "none"
    /\ new_session_lock = Free
    /\ stop_posted = FALSE
    /\ tpc = [t \in LoopThreads |-> "idle"]
    /\ loops_created = 0
    /\ threads_created = 0
    /\ sessions = <<>>
    /\ stops = 0
    /\ peer = NoPeer

\* a ChatLoop whose first new_session has just returned the session: the
\* worker thread is started, run_forever not yet entered
InitStarted ==
    /\ loop = 1
    /\ thread = "started"
    /\ new_session_lock = Free
    /\ stop_posted = FALSE
    /\ tpc = [t \in LoopThreads |-> "idle"]
    /\ loops_created = 1
    /\ threads_created = 1
    /\ sessions = <<1>>
    /\ stops = 0
    /\ peer = NoPeer

InitLoop == InitManager /\ InitSession

Init == InitStarted /\ InitSession

NextLoop ==
    \/ \E t \in LoopThreads :
        \/ NsAcquire(t) \/ NsCheck(t) \/ NsNewLoop(t) \/ NsNewThread(t)
        \/ NsStartThread(t) \/ NsRelease(t) \/ NsSession(t)
        \/ StopPost(t) \/ StopJoin(t)
    \/ RunEventLoop
    \/ LoopStops

SpecLoop == InitLoop /\ [][NextLoop]_vars

\* a started worker thread runs, a running loop executes the callbacks
\* posted to it, and join returns once the thread has exited
FairLoop ==
    /\ WF_vars(RunEventLoop)
    /\ WF_vars(LoopStops)
    /\ \A t \in LoopThreads : WF_vars(StopJoin(t))

SpecLoopFair == InitLoop /\ [][NextLoop]_vars /\ FairLoop

\* ---- two ChatLoop instances in one process

\* the thread that uses the first instance
ManagerThreads == {"t1"}

NextManagers ==
    \/ \E t \in ManagerThreads :
        \/ NsAcquire(t) \/ NsCheck(t) \/ NsNewLoop(t) \/ NsNewThread(t)
        \/ NsStartThread(t) \/ NsRelease(t) \/ NsSession(t)
        \/ StopPost(t) \/ StopJoin(t)
    \/ RunEventLoop
    \/ LoopStops
    \/ PeerNsAcquire \/ PeerNsCheck \/ PeerNsNewLoop \/ PeerNsStartThread
    \/ PeerNsRelease \/ PeerNsSession
    \/ PeerStopPost \/ PeerStopJoin
    \/ PeerRunEventLoop
    \/ PeerLoopStops

SpecManagers == InitLoop /\ [][NextManagers]_vars

\* the steps of __ensure_message_loop_started and of the handshake
Handshake ==
    \/ \E c \in Callers : EnsureAcquire(c) \/ EnsureCheck(c) \/ EnsureStart(c)
                          \/ AwaitReady(c) \/ Return(c)
    \/ RunEventLoop
    \/ MessageLoopConnect
    \/ MessageLoopReady

Next ==
    \/ Handshake
    \/ \E c \in Callers :
        \/ Request(c) \/ Notify(c)
        \/ IdLoad(c) \/ GetNextMessageId(c) \/ Register(c)
        \/ SendMessage(c) \/ SendNoStream(c) \/ SendDeadStream(c)
        \/ AwaitEvent(c) \/ PopResponse(c)
        \/ Close(c) \/ CloseStream(c) \/ CloseChannel(c) \/ CloseFuture(c)
    \/ \E id \in IdRange :
        \/ \E r \in ServerReplies(id) : DeliverReply(r)
        \/ DeliverDuplicate(RepeatedReply(id))
        \/ RunSetCallback(id)
    \/ DeliverUnknown(SecondHello)
    \/ DeliverOther

Spec == Init /\ [][Next]_vars

\* the thread that enters `async with session` before it consumes
Consumers == {"c1"}

NextPush ==
    \/ Handshake
    \/ \E c \in Consumers : Enter(c)
    \/ \E seq \in SeqIds : DeliverData(seq)
    \/ SignalData
    \/ RunDataSetCallback
    \/ Messages
    \/ Pull
    \/ WaitDataEvent
    \/ Drain

SpecPush == Init /\ [][NextPush]_vars

\* ---- one messages() cursor, pulled again and again

\* a session whose `async with` entry has completed: the worker thread runs
\* the loop, the hello exchange is over and the message loop is dispatching
InitReady ==
    /\ loop = 1
    /\ thread = "running"
    /\ new_session_lock = Free
    /\ stop_posted = FALSE
    /\ tpc = [t \in LoopThreads |-> "idle"]
    /\ loops_created = 1
    /\ threads_created = 1
    /\ sessions = <<1>>
    /\ stops = 0
    /\ peer = NoPeer
    /\ message_loop_lock = Free
    /\ message_loop = "dispatching"
    /\ channel = "open"
    /\ stream = "open"
    /\ ready_for_messages = TRUE
    /\ hello_replies = 1
    /\ schedules = 1
    /\ next_message_id = FirstMessageId
    /\ non_data_events = <<>>
    /\ non_data_responses = <<>>
    /\ set_posted = [i \in ReplyIds |-> 0]
    /\ raised = [i \in ReplyIds |-> 0]
    /\ pc = [c \in Callers |-> "idle"]
    /\ op = [c \in Callers |-> "none"]
    /\ msgid = [c \in Callers |-> NoId]
    /\ ret = [c \in Callers |-> NoResult]
    /\ after_close = [c \in Callers |-> FALSE]
    /\ data_event = FALSE
    /\ data_set_posted = 0
    /\ data_messages = <<>>
    /\ data_pc = "idle"
    /\ delivered = <<>>
    /\ cursor = "none"
    /\ yielded = <<>>
    /\ cursors = 0
    /\ first_pull = -1
    /\ wire = <<[kind |-> "hi", id |-> HelloId, ctx |-> "loop"]>>
    /\ replied = [i \in ReplyIds |-> 0]
    /\ closed = FALSE
    /\ reply_pushes = [i \in ReplyIds |-> -1]
    /\ next_message_id_lock = Free
    /\ issued = <<>>
    /\ used = TRUE
    /\ cancels = {}
    /\ call = [c \in Callers |-> NoCall]
    /\ user_id = NoUser
    /\ auth_ok = FALSE

NextCursor ==
    \/ \E seq \in SeqIds : DeliverData(seq)
    \/ SignalData
    \/ RunDataSetCallback
    \/ OpenCursor
    \/ Pull
    \/ WaitDataEvent
    \/ Drain

\* both event loops keep running: the chat loop finishes the handler it is
\* in, the consumer's loop runs the callbacks posted to it and the consumer
\* task, and the consumer pulls again after every message
FairCursor ==
    /\ WF_vars(SignalData)
    /\ WF_vars(RunDataSetCallback)
    /\ WF_vars(OpenCursor)
    /\ WF_vars(Pull)
    /\ WF_vars(WaitDataEvent)
    /\ WF_vars(Drain)

SpecCursor == InitReady /\ [][NextCursor]_vars /\ FairCursor

\* ---- `async with session`: __aenter__, and close() from __aexit__

NextContext ==
    \/ Handshake
    \/ \E c \in Callers :
        \/ Enter(c)
        \/ Close(c) \/ CloseStream(c) \/ CloseChannel(c) \/ CloseFuture(c)
    \/ DeliverUnknown(SecondHello)
    \/ DeliverOther

SpecContext == Init /\ [][NextContext]_vars

\* ---- notifies on a Ready session whose transport may fail a write

NextNotify ==
    \/ \E c \in Callers :
        \/ Notify(c)
        \/ EnsureAcquire(c) \/ EnsureCheck(c) \/ AwaitReady(c)
        \/ IdLoad(c) \/ GetNextMessageId(c) \/ Register(c)
        \/ SendMessage(c) \/ SendFails(c)
        \/ Return(c)
    \/ DeliverOther

SpecNotify == InitReady /\ [][NextNotify]_vars

\* ---- requests whose replies come in among data messages (the history a
\* get_message_history call asks for), before messages() is called

NextHistory ==
    \/ \E c \in Consumers :
        \/ Request(c)
        \/ EnsureAcquire(c) \/ EnsureCheck(c) \/ AwaitReady(c)
        \/ IdLoad(c) \/ GetNextMessageId(c) \/ Register(c)
        \/ SendMessage(c) \/ AwaitEvent(c) \/ PopResponse(c)
        \/ Return(c)
    \/ \E id \in IdRange :
        \/ \E r \in ServerReplies(id) : DeliverReply(r)
        \/ RunSetCallback(id)
    \/ \E seq \in SeqIds : DeliverData(seq)
    \/ SignalData
    \/ RunDataSetCallback

SpecHistory == InitReady /\ [][NextHistory]_vars

\* ---- __send_message handed envelopes with any cases populated

\* the populated cases of the envelopes handed in: none, one request case,
\* two request cases, 'note' alone
EnvelopeCases == {{}, {"pub"}, {"sub", "pub"}, {NoteField}}

NextEnvelope ==
    \/ \E c \in Callers :
        \/ \E cases \in EnvelopeCases, no_response \in BOOLEAN :
              SendCall(c, cases, no_response)
        \/ EnsureAcquire(c) \/ EnsureCheck(c) \/ AwaitReady(c)
        \/ IdLoad(c) \/ GetNextMessageId(c) \/ Register(c)
        \/ SendMessage(c) \/ AwaitEvent(c) \/ PopResponse(c)
        \/ Return(c)
    \/ \E id \in IdRange :
        \/ \E r \in ServerReplies(id) : DeliverReply(r)
        \/ RunSetCallback(id)

SpecEnvelope == InitReady /\ [][NextEnvelope]_vars

\* ---- requests on a Ready session and the replies to them, once or twice

NextReply ==
    \/ \E c \in Callers :
        \/ Request(c)
        \/ EnsureAcquire(c) \/ EnsureCheck(c) \/ AwaitReady(c)
        \/ IdLoad(c) \/ GetNextMessageId(c) \/ Register(c)
        \/ SendMessage(c) \/ AwaitEvent(c) \/ PopResponse(c)
        \/ Return(c)
    \/ \E id \in IdRange :
        \/ \E r \in ServerReplies(id) : DeliverReply(r)
        \/ DeliverDuplicate(RepeatedReply(id))
        \/ RunSetCallback(id)

SpecReply == InitReady /\ [][NextReply]_vars

\* the caller's event loop keeps running: it runs the callbacks posted to
\* it and resumes the coroutine whose wait has ended
FairReply ==
    /\ \A id \in IdRange : WF_vars(RunSetCallback(id))
    /\ \A c \in Callers : WF_vars(AwaitEvent(c)) /\ WF_vars(PopResponse(c))

SpecReplyFair == InitReady /\ [][NextReply]_vars /\ FairReply

\* ---- a session used while its ChatLoop is started and stopped

\* the threads that call new_session and stop
LifecycleThreads == {"t1", "t2"}

\* the thread that uses the session the first new_session returned
LifecycleCallers == {"c1"}

\* `async with session` on a session new_session has returned
EnterSession(c) ==
    /\ Len(sessions) > 0
    /\ Enter(c)

NextLifecycle ==
    \/ \E t \in LifecycleThreads :
        \/ NsAcquire(t) \/ NsCheck(t) \/ NsNewLoop(t) \/ NsNewThread(t)
        \/ NsStartThread(t) \/ NsRelease(t) \/ NsSession(t)
        \/ StopPost(t) \/ StopJoin(t)
    \/ RunEventLoop
    \/ LoopStops
    \/ \E c \in LifecycleCallers :
        \/ EnterSession(c)
        \/ EnsureAcquire(c) \/ EnsureCheck(c) \/ EnsureStart(c)
        \/ AwaitReady(c) \/ Return(c)
    \/ MessageLoopConnect
    \/ MessageLoopReady

SpecLifecycle == InitLoop /\ [][NextLifecycle]_vars

\* ---- one thread using login, register and delete_messages

\* the thread that makes the calls
AuthCallers == {"c1"}

NextAuth ==
    \/ Handshake
    \/ \E c \in AuthCallers :
        \/ \E scheme \in Schemes, secret \in SecretKinds :
              \/ Login(c, scheme, secret)
              \/ \E login \in BOOLEAN : RegisterAccount(c, scheme, secret, login)
        \/ \E m \in MessageSpecs : DeleteMessages(c, m)
        \/ IdLoad(c) \/ GetNextMessageId(c) \/ Register(c)
        \/ SendMessage(c) \/ AwaitEvent(c) \/ PopResponse(c)
        \/ AuthReturn(c)
    \/ \E id \in IdRange :
        \/ \E r \in AuthReplies(id) : DeliverReply(r)
        \/ RunSetCallback(id)

SpecAuth == Init /\ [][NextAuth]_vars

\* ---- __raise_for_ctrl_status on every reply

\* status codes around the two boundaries, and texts
StatusCodes == 390..610

StatusTexts == {"duplicate", "denied"}

StatusReplies ==
    {Ctrl(FirstMessageId + 1, code, text, 1) :
        code \in StatusCodes, text \in StatusTexts}
    \cup {Meta(FirstMessageId + 1, 1)}

\* caller c1 has sent request 101 on a Ready session and has woken from the
\* wait on its event; the reply r is stored for it
InitStatus ==
    /\ InitStarted
    /\ \E r \in StatusReplies :
        /\ non_data_responses = (r.id :> r)
        /\ msgid = [c \in Callers |-> IF c = "c1" THEN r.id ELSE NoId]
        /\ wire = <<[kind |-> "hi", id |-> HelloId, ctx |-> "loop"], [kind |-> "req", id |-> r.id, ctx |-> "caller"]>>
        /\ replied = [i \in ReplyIds |-> IF i = r.id THEN 1 ELSE 0]
        /\ reply_pushes = [i \in ReplyIds |-> IF i = r.id THEN 0 ELSE -1]
        /\ raised = [i \in ReplyIds |-> IF i = r.id THEN 1 ELSE 0]
        /\ next_message_id = r.id
        /\ issued = <<r.id>>
    /\ message_loop_lock = Free
    /\ message_loop = "dispatching"
    /\ channel = "open"
    /\ stream = "open"
    /\ ready_for_messages = TRUE
    /\ hello_replies = 1
    /\ schedules = 1
    /\ non_data_events = <<>>
    /\ set_posted = [i \in ReplyIds |-> 0]
    /\ pc = [c \in Callers |-> IF c = "c1" THEN "pop" ELSE "idle"]
    /\ op = [c \in Callers |-> IF c = "c1" THEN "request" ELSE "none"]
    /\ ret = [c \in Callers |-> NoResult]
    /\ after_close = [c \in Callers |-> FALSE]
    /\ data_event = FALSE
    /\ data_set_posted = 0
    /\ data_messages = <<>>
    /\ data_pc = "idle"
    /\ delivered = <<>>
    /\ cursor = "none"
    /\ yielded = <<>>
    /\ cursors = 0
    /\ first_pull = -1
    /\ closed = FALSE
    /\ next_message_id_lock = Free
    /\ used = TRUE
    /\ cancels = {}
    /\ call = [c \in Callers |-> NoCall]
    /\ user_id = NoUser
    /\ auth_ok = FALSE

NextStatus == \E c \in Callers : PopResponse(c)

SpecStatus == InitStatus /\ [][NextStatus]_vars

(* =============================== claims ================================ *)

(* ------------------------------- C2 ----------------------------------- *)

\* C2 (single start): however the threads calling new_session interleave,
\* at most one event loop and at most one worker thread are ever created,
\* exactly one of each once a session has been returned, and every returned
\* session is bound to that one loop.
C2_SingleStart ==
    /\ loops_created <= 1
    /\ threads_created <= 1
    /\ Len(sessions) > 0 => (loops_created = 1 /\ threads_created = 1)
    /\ \A i \in 1..Len(sessions) : sessions[i] = 1

\* three new_session calls have returned, and one loop and one thread exist
C2_Witness ==
    /\ Len(sessions) = 3
    /\ loops_created = 1
    /\ threads_created = 1

(* ------------------------------- C1 ----------------------------------- *)

\* position of the request `id` on the stream (0: not written)
WirePos(id) ==
    IF id \in SentRequests
    THEN CHOOSE i \in 1..Len(wire) : wire[i].kind = "req" /\ wire[i].id = id
    ELSE 0

\* the outcomes of __send_message that come from a reply
ReplyOutcomes == {"returned", "Rejected", "ServerError"}

\* C1 (correlation correctness): whenever a __send_message call returns a
\* reply, or raises from one, that reply bears the id stamped on the call's
\* own request, whatever the order in which the replies were delivered.
C1_CorrelationCorrectness ==
    \A c \in Callers :
        (pc[c] = "done" /\ ret[c].outcome \in ReplyOutcomes)
            => ret[c].reply.id = msgid[c]

\* two requests are outstanding together; the later one was replied to first
\* and its caller has returned, the earlier one is still waiting
C1_Witness ==
    \E c, d \in Callers :
        /\ pc[c] = "done" /\ ret[c].outcome = "returned"
        /\ ret[c].reply.id = msgid[c]
        /\ pc[d] = "await"
        /\ WirePos(msgid[d]) > 0
        /\ WirePos(msgid[d]) < WirePos(msgid[c])
        /\ replied[msgid[d]] = 0

(* ------------------------------- C3 ----------------------------------- *)

\* ClientHi envelopes written to the stream
HellosSent == Cardinality({i \in 1..Len(wire) : wire[i].kind = "hi"})

\* C3 (at most one handshake): over the whole life of the session the
\* message loop is scheduled at most once and at most one ClientHi is sent,
\* also by operations that begin after close().
C3_OneHandshake ==
    /\ schedules <= 1
    /\ HellosSent <= 1

\* after a completed close(), a later operation has gone through
\* __ensure_message_loop_started and ended, and still one handshake was made
C3_Witness ==
    /\ closed
    /\ schedules = 1
    /\ HellosSent = 1
    /\ \E c \in Callers :
        after_close[c] /\ op[c] \in {"request", "note"} /\ pc[c] = "done"

(* ------------------------------- C4 ----------------------------------- *)

\* C4 (handshake gate): a request or note envelope is on the stream only
\* after the ClientHi envelope and after the one reply to it was received;
\* a caller is past the readiness wait only then, and a caller still at the
\* readiness wait has no id and so no entry in __non_data_events.
C4_HandshakeGate ==
    /\ \A i \in 1..Len(wire) :
          wire[i].kind \in {"req", "note"}
              => (hello_replies = 1 /\ \E j \in 1..(i - 1) : wire[j].kind = "hi")
    /\ \A c \in Callers :
          pc[c] \in {"alloc", "alloc_loaded", "stamp", "send", "await", "pop"}
              => hello_replies = 1
    /\ \A c \in Callers :
          pc[c] \in {"ensure", "ensure_locked", "ensure_start", "ready_wait"}
              => msgid[c] = NoId
    /\ hello_replies = 0 => DOMAIN non_data_events = {}

\* one caller has written its envelope behind the ClientHi while the other
\* went through the readiness wait as well
C4_Witness ==
    /\ Len(wire) >= 2
    /\ wire[1].kind = "hi"
    /\ wire[2].kind \in {"req", "note"}
    /\ hello_replies = 1
    /\ \E c \in Callers : pc[c] = "alloc"

(* ------------------------------- C5 ----------------------------------- *)

\* C5 (at-most-one resolution), as claimed: the signal of every id is raised
\* at most once, a caller is delivered the first reply to its request, a
\* repeated reply does not end the dispatch loop, and no stored response
\* outlives its request.
C5_AtMostOneResolution ==
    /\ \A id \in IdRange : raised[id] <= 1
    /\ \A c \in Callers :
          (pc[c] = "done" /\ ret[c].outcome \in ReplyOutcomes)
              => ret[c].reply.copy = 1
    /\ replied[HelloId] = 0 => message_loop # "failed"
    /\ \A id \in DOMAIN non_data_responses \cap IdRange :
          \/ id \in DOMAIN non_data_events
          \/ \E c \in Callers : pc[c] = "pop" /\ msgid[c] = id

(* ------------------------------- C7 ----------------------------------- *)

\* the caller can never leave the wait it is in
BlockedForever(c) ==
    \/ /\ pc[c] = "ready_wait"
       /\ ~ready_for_messages
       /\ message_loop \in {"cancelled", "failed"}
    \/ /\ pc[c] = "await"
       /\ message_loop \in {"cancelled", "failed"}
       /\ ~non_data_events[msgid[c]]
       /\ set_posted[msgid[c]] = 0

\* C7 (send after close), as claimed: a send begun after close() has
\* completed writes nothing, does not block, and ends in an error.
C7_SendAfterClose ==
    \A c \in Callers :
        (after_close[c] /\ op[c] \in {"request", "note"})
            => /\ ~BlockedForever(c)
               /\ pc[c] # "await"
               /\ pc[c] = "done"
                    => ret[c].outcome \in {"AttributeError", "RuntimeError",
                                           "StreamError"}

(* ------------------------------- C8 ----------------------------------- *)

ClosePcs == {"close_stream", "close_channel", "close_future"}

\* a step of close()
CloseStep ==
    \E c \in Callers :
        \/ pc[c] \in ClosePcs /\ pc'[c] # pc[c]
        \/ pc[c] = "idle" /\ pc'[c] = "close_stream"

\* C8 (close leaves outstanding requests unresolved): no step of close()
\* raises a signal, stores a response or removes a correlation-table entry.
C8_CloseLeavesRequests ==
    [][CloseStep => UNCHANGED <<non_data_events, non_data_responses,
                                set_posted, raised>>]_vars

\* close() has completed while a request sent before it is still waiting,
\* registered and unresolved
C8_Witness ==
    /\ closed
    /\ \E c \in Callers :
        /\ pc[c] = "await"
        /\ ~after_close[c]
        /\ msgid[c] \in DOMAIN non_data_events
        /\ ~non_data_events[msgid[c]]
        /\ msgid[c] \notin DOMAIN non_data_responses
        /\ raised[msgid[c]] = 0

(* ------------------------------- C6 ----------------------------------- *)

\* C6 (status mapping): a call that consumed a ServerCtrl reply with code c
\* raises Rejected with the reply's text iff 400 <= c <= 499, raises the
\* server error iff 500 <= c <= 599, and returns it otherwise; a ServerMeta
\* reply is always returned.
C6_StatusMapping ==
    \A c \in Callers :
        pc[c] = "done" =>
            LET r == ret[c].reply
                o == ret[c].outcome IN
            /\ r.kind \in {"ctrl", "meta"}
            /\ r.kind = "meta" => o = "returned"
            /\ r.kind = "ctrl" =>
                /\ (o = "Rejected") = (r.code \in 400..499)
                /\ (o = "ServerError") = (r.code \in 500..599)
                /\ (o = "returned") = (r.code \notin 400..599)
                /\ o = "Rejected" => ret[c].text = r.text

\* the boundary code 499 has raised Rejected carrying the server's text
C6_Witness ==
    \E c \in Callers :
        /\ pc[c] = "done"
        /\ ret[c].outcome = "Rejected"
        /\ ret[c].reply.code = 499
        /\ ret[c].text = "duplicate"

(* ------------------------------- C9 ----------------------------------- *)

\* C9 (push FIFO): what messages() has yielded, followed by what is still
\* queued, is exactly what the transport delivered, in that order.
C9_PushFifo == yielded \o data_messages = delivered

\* three data messages, two of them alike, arrived before the first pull of
\* the only cursor, and were yielded in their order of arrival
C9_Witness ==
    /\ cursors = 1
    /\ first_pull = 3
    /\ delivered = <<2, 1, 1>>
    /\ yielded = <<2, 1, 1>>

(* ------------------------------- C10 ---------------------------------- *)

\* C10 (fresh cursor), as claimed: a cursor waits only when the queue is
\* empty; with entries queued its pull goes on without a new push (the
\* event is set, or a set of it is posted or about to be).
C10_FreshCursor ==
    (cursor = "wait" /\ ~data_event /\ data_set_posted = 0 /\ data_pc = "idle")
        => data_messages = <<>>

(* ------------------------------- C11 ---------------------------------- *)

\* C11 (no lost wakeup): with one cursor pulled again and again, with both
\* loops scheduled fairly, the n-th data message put on the queue is
\* eventually the n-th one yielded, and the consumer never waits with the
\* queue non-empty unless a signal is set, posted or about to be posted.
C11_NoLostWakeup ==
    /\ []((cursor = "wait" /\ ~data_event /\ data_set_posted = 0
             /\ data_pc = "idle") => data_messages = <<>>)
    /\ \A n \in 1..MaxPush :
          (Len(delivered) >= n)
              ~> (Len(yielded) >= n /\ yielded[n] = delivered[n])

\* the race: the consumer has drained the queue and gone back to the wait
\* with the event clear, and the handler has put the next message on the
\* queue but not yet posted its signal
C11_Witness ==
    /\ cursors = 1
    /\ cursor = "wait"
    /\ Len(yielded) >= 1
    /\ ~data_event
    /\ data_set_posted = 0
    /\ data_pc = "signal"
    /\ Len(data_messages) = 1

(* ------------------------------- C12 ---------------------------------- *)

\* occurrences of the value v in the sequence s
Count(s, v) == Cardinality({i \in 1..Len(s) : s[i] = v})

\* C12 (no duplicate delivery): every data message the transport delivered
\* is, as often as it was delivered, either still on the queue or yielded,
\* never both and never twice, whatever number of cursors took part.
C12_NoDuplicateDelivery ==
    \A v \in SeqIds :
        /\ Count(yielded, v) + Count(data_messages, v) = Count(delivered, v)
        /\ Count(yielded, v) <= Count(delivered, v)

\* two cursors were used, the second one pulled first when some messages
\* had been delivered, and three messages, two of them alike, were yielded
C12_Witness ==
    /\ cursors = 2
    /\ first_pull \in 1..2
    /\ Len(yielded) = 3
    /\ yielded[1] = yielded[3]
    /\ data_messages = <<>>

(* ------------------------------- C13 ---------------------------------- *)

\* C13 (transport I/O on the execution context), as claimed: every envelope
\* on the stream was written by the worker thread running the chat event
\* loop, and only that thread has cancelled the stream.
C13_TransportOnLoop ==
    /\ \A i \in 1..Len(wire) : wire[i].ctx = "loop"
    /\ cancels \subseteq {"loop"}

(* ------------------------------- C16 ---------------------------------- *)

\* C16 (unique, increasing ids): the ids __get_next_message_id has returned
\* are strictly increasing in the order of the returns, and no two request
\* envelopes on the stream bear the same id.
C16_UniqueIncreasingIds ==
    /\ \A i, j \in 1..Len(issued) : i < j => issued[i] < issued[j]
    /\ \A i, j \in 1..Len(wire) :
          (i < j /\ wire[i].kind = "req" /\ wire[j].kind = "req")
              => wire[i].id # wire[j].id

\* two threads went through the generator one behind the other, and the
\* request with the later id was written to the stream first
C16_Witness ==
    /\ Len(issued) = 2
    /\ Len(wire) = 3
    /\ wire[2].kind = "req" /\ wire[2].id = issued[2]
    /\ wire[3].kind = "req" /\ wire[3].id = issued[1]

(* ------------------------------- C19 ---------------------------------- *)

\* C19 (creating a session starts no network I/O): as long as no operation
\* and no `async with` entry has begun on the session new_session returned,
\* no message loop is scheduled, there is no channel and no stream, the
\* readiness event is clear and nothing was written.
C19_NoIoAtCreation ==
    ~used => /\ message_loop = "none"
             /\ schedules = 0
             /\ channel = "unset"
             /\ stream = "none"
             /\ ~ready_for_messages
             /\ wire = <<>>

\* the worker thread runs the loop the session is bound to, the session
\* has seen no operation but a close(), and is still untouched
C19_Witness ==
    /\ sessions = <<1>>
    /\ thread = "running"
    /\ ~used
    /\ message_loop = "none"
    /\ \E c \in Callers : pc[c] = "done" /\ op[c] = "close"

(* ------------------------------- C17 ---------------------------------- *)

\* C17 (stop() joins the worker): a stop() begun when the worker thread is
\* started posts loop.stop; a stop() that finds a thread returns only when
\* that thread has exited; and with the halt posted it does return, also
\* when the loop had not begun to run.
C17_StopJoinsWorker ==
    /\ [][\A t \in LoopThreads :
            (tpc[t] = "idle" /\ tpc'[t] = "stop_join"
                /\ thread \in {"started", "running"}) => stop_posted']_vars
    /\ [][\A t \in LoopThreads :
            (tpc[t] = "stop_join" /\ tpc'[t] = "idle" /\ thread # "none")
                => thread = "exited"]_vars
    /\ \A t \in LoopThreads :
          (tpc[t] = "stop_join" /\ stop_posted
              /\ thread \in {"started", "running"})
            ~> (tpc[t] = "idle" /\ thread = "exited")

\* stop() has posted the halt right after the new_session call that started
\* the thread returned, before run_forever was entered
C17_Witness ==
    /\ Len(sessions) = 1
    /\ thread = "started"
    /\ stop_posted
    /\ \E t \in LoopThreads : tpc[t] = "stop_join"

(* ------------------------------- C18 ---------------------------------- *)

\* C18 (stop() on a manager never started): a stop() that finds no loop
\* posts nothing and one that finds no thread returns at once without an
\* error; neither creates a loop or a thread, and no halt is pending for
\* the loop a later new_session starts.
C18_StopNeverStarted ==
    /\ [](loop = 0 => ~stop_posted)
    /\ [][\A t \in LoopThreads :
            (tpc[t] = "idle" /\ tpc'[t] = "stop_join" /\ loop = 0)
                => UNCHANGED <<loop, thread, stop_posted, loops_created,
                               threads_created, sessions>>]_vars
    /\ [][\A t \in LoopThreads :
            (tpc[t] = "stop_join" /\ tpc'[t] # "stop_join" /\ thread = "none")
                => /\ tpc'[t] = "idle"
                   /\ UNCHANGED <<loop, thread, stop_posted, loops_created,
                                  threads_created, sessions>>]_vars

\* stop() has returned on a manager without a loop, and a later new_session
\* has started the loop, which runs with no halt posted
C18_Witness ==
    /\ stops = 1
    /\ ~stop_posted
    /\ \A t \in LoopThreads : tpc[t] = "idle"
    /\ Len(sessions) >= 1
    /\ thread = "running"

(* ------------------------------- C14 ---------------------------------- *)

\* the calls the claim is about
InvalidCall(a) ==
    \/ a.name = "login" /\ a.scheme \notin {"basic", "token"}
    \/ a.name = "login" /\ a.secret \in {"none", "int"}
    \/ a.name = "register" /\ a.scheme \notin {"anonymous", "basic"}
    \/ a.name = "register" /\ a.secret \in {"none", "int"}
                           /\ a.scheme # "anonymous"
    \/ a.name = "delete_messages"
          /\ \/ a.messages.kind \notin {"int", "tuple", "list"}
             \/ \E i \in 1..Len(a.messages.elems) :
                    a.messages.elems[i] \notin {"int", "tuple"}

\* C14 (validation precedes the network): a login, register or
\* delete_messages call with a disallowed scheme, a secret of a wrong type
\* or a malformed range spec has raised Rejected without entering
\* __send_message; and as long as no call has entered it, no message loop
\* is scheduled, no id allocated, no event registered and nothing written.
C14_ValidationFirst ==
    /\ \A c \in Callers :
          (pc[c] # "idle" /\ InvalidCall(call[c]))
              => /\ pc[c] = "done"
                 /\ op[c] = "invalid"
                 /\ ret[c].outcome = "Rejected"
                 /\ msgid[c] = NoId
    /\ ~used => /\ schedules = 0
                /\ message_loop = "none"
                /\ next_message_id = FirstMessageId
                /\ issued = <<>>
                /\ non_data_events = <<>>
                /\ wire = <<>>

\* on a session whose loop runs, a delete_messages call with a list that
\* holds a str has raised Rejected, and the session is untouched
C14_Witness ==
    /\ thread = "running"
    /\ ~used
    /\ \E c \in Callers :
          /\ pc[c] = "done"
          /\ call[c].name = "delete_messages"
          /\ call[c].messages.kind = "list"
          /\ Len(call[c].messages.elems) = 2
          /\ call[c].messages.elems[2] = "str"
          /\ ret[c].outcome = "Rejected"

(* ------------------------------- C15 ---------------------------------- *)

\* C15 (authenticated identity), as claimed: while no login or register has
\* returned normally, reading user_id raises; a login or register that
\* ended in Rejected or in the server error left __user_id as it was, and
\* one that returned normally left it present.
C15_AuthenticatedIdentity ==
    /\ ~auth_ok => UserId = "RuntimeError"
    /\ \A c \in Callers :
          (pc[c] = "auth_done" /\ ret[c].outcome \in {"Rejected", "ServerError"})
              => user_id = call[c].uid_before
    /\ \A c \in Callers :
          (pc[c] = "auth_done" /\ ret[c].outcome = "ok") => user_id # NoUser

(* ------------------------------- C20 ---------------------------------- *)

\* C20 (session context lifecycle), as claimed: the step that completes an
\* `async with` entry leaves the stream handle set and the message-loop
\* future present and not done; the step that completes close() leaves the
\* future done and the stream handle cleared.
C20_ContextLifecycle ==
    /\ [][\A c \in Callers :
            (op[c] = "enter" /\ pc[c] = "ready_wait" /\ pc'[c] = "done")
                => (stream' = "open" /\ message_loop' = "dispatching")]_vars
    /\ [][\A c \in Callers :
            (op[c] = "close" /\ pc[c] = "close_future" /\ pc'[c] = "done")
                => (stream' = "none"
                    /\ message_loop' \in {"cancelled", "failed"})]_vars

(* ------------------------------- C21 ---------------------------------- *)

\* C21 (fire-and-forget sends do no bookkeeping): no step of a send made
\* with no_response adds or removes an entry of __non_data_events or of
\* __non_data_responses; the envelope it writes is a ClientNote with no id;
\* the step that writes it ends the call, which never waits for a reply.
C21_NotifyNoBookkeeping ==
    [][\A c \in Callers :
          (op[c] = "note" /\ pc'[c] # pc[c])
             => /\ UNCHANGED <<non_data_events, non_data_responses>>
                /\ pc'[c] \notin {"await", "pop"}
                /\ wire' # wire
                     => /\ wire' = Append(wire, [kind |-> "note", id |-> NoId,
                                                 ctx |-> "caller"])
                        /\ pc'[c] = "done"
                        /\ ret'[c].outcome = "ok"]_vars

\* a notify has returned normally with its ClientNote the last envelope on
\* the stream, while the request of the other caller is still registered
\* and unanswered
C21_Witness ==
    \E c, d \in Callers :
        /\ op[c] = "note" /\ pc[c] = "done" /\ ret[c].outcome = "ok"
        /\ wire[Len(wire)] = [kind |-> "note", id |-> NoId, ctx |-> "caller"]
        /\ pc[d] = "await"
        /\ DOMAIN non_data_events = {msgid[d]}
        /\ DOMAIN non_data_responses = {}
        /\ msgid[c] > msgid[d]

(* ------------------------------- C22 ---------------------------------- *)

\* C22 (notifies never surface an error), as claimed: on a Ready session,
\* whose message loop is dispatching on an open stream, every notify that
\* has ended has returned normally, whether the write succeeded or failed.
C22_NotifyNeverRaises ==
    \A c \in Callers :
        (/\ op[c] = "note" /\ pc[c] = "done"
         /\ message_loop = "dispatching" /\ stream = "open" /\ ~closed)
            => ret[c].outcome = "ok"

(* ------------------------------- C23 ---------------------------------- *)

\* C23 (no spurious completion): a call that expects a response ends by
\* returning a reply, or by raising Rejected or the server error, only
\* when a ctrl or meta reply bearing its own id has been dispatched, and
\* that reply is the one it ends with; a call waiting for a reply of which
\* none has been dispatched stays at the wait in every step, also after
\* close() and after the message loop has ended.
C23_NoSpuriousCompletion ==
    [][\A c \in Callers :
          /\ (/\ op'[c] = "request" /\ pc'[c] = "done"
              /\ ret'[c].outcome \in ReplyOutcomes)
                 => /\ replied'[msgid'[c]] >= 1
                    /\ ret'[c].reply.kind \in {"ctrl", "meta"}
                    /\ ret'[c].reply.id = msgid'[c]
          /\ (/\ op[c] = "request" /\ pc[c] = "await"
              /\ replied[msgid[c]] = 0)
                 => pc'[c] = "await"]_vars

\* one call has returned the reply dispatched for it; close() has then
\* completed and cancelled the message loop, and the other call, whose
\* request is on the stream unanswered, is still at its wait
C23_Witness ==
    \E c, d \in Callers :
        /\ op[c] = "request" /\ pc[c] = "done" /\ ret[c].outcome = "returned"
        /\ replied[msgid[c]] = 1
        /\ op[d] = "request" /\ pc[d] = "await"
        /\ msgid[d] \in SentRequests
        /\ replied[msgid[d]] = 0
        /\ message_loop = "cancelled"

(* ------------------------------- C24 ---------------------------------- *)

\* C24 (pushes that precede a reply are queued before the call returns):
\* when a call has ended with the reply to its request, every data message
\* the message loop received before that reply has been put on
\* __data_messages: those messages, in order, begin the sequence of what
\* messages() has taken off the queue followed by what the queue holds.
C24_PushesBeforeReply ==
    \A c \in Callers :
        (/\ op[c] = "request" /\ pc[c] = "done"
         /\ ret[c].outcome \in ReplyOutcomes)
            => LET n == reply_pushes[msgid[c]]
                   q == yielded \o data_messages
               IN /\ n >= 0
                  /\ Len(q) >= n
                  /\ SubSeq(q, 1, n) = SubSeq(delivered, 1, n)

\* two data messages came in before the reply and a third after it; the
\* call has returned, no messages() call has been made and the queue holds
\* all of them
C24_Witness ==
    \E c \in Callers :
        /\ op[c] = "request" /\ pc[c] = "done" /\ ret[c].outcome = "returned"
        /\ reply_pushes[msgid[c]] = 2
        /\ Len(delivered) = 3
        /\ data_messages = delivered
        /\ cursors = 0

(* ------------------------------- C25 ---------------------------------- *)

\* the `messages` arguments the operation accepts: an int, a tuple, a list
\* of ints and tuples
AcceptedMessages(m) ==
    \/ m.kind \in {"int", "tuple"}
    \/ /\ m.kind = "list"
       /\ \A i \in 1..Len(m.elems) : m.elems[i] \in {"int", "tuple"}

\* C25 (delete_messages range normalisation), as claimed: for an accepted
\* `messages` every entry of the list built is a (low, hi) pair, one per
\* int or tuple handed in, and the call goes on to send them; any other
\* shape raises Rejected and sends nothing.
C25_RangeNormalisation ==
    \A c \in Callers :
        (call[c].name = "delete_messages" /\ pc[c] # "idle")
            => LET m == call[c].messages
               IN IF AcceptedMessages(m)
                  THEN /\ \A i \in 1..Len(NormalisedMessages(m)) :
                             NormalisedMessages(m)[i] = "pair"
                       /\ op[c] = "request"
                  ELSE /\ op[c] = "invalid"
                       /\ ret[c].outcome = "Rejected"

(* ------------------------------- C26 ---------------------------------- *)

\* a step of the first instance: of a thread in its new_session or stop, or
\* of its worker thread
ManagerStep == tpc' # tpc \/ thread' # thread

\* a step of the second instance
PeerStep == peer'.pc # peer.pc \/ peer'.thread # peer.thread

\* C26 (independent managers): each of two ChatLoop instances creates its
\* own event loop and worker thread, every session an instance returns
\* after its start is bound to the loop of that instance, a worker thread
\* exits only on a stop() of its own instance, and no step of one instance
\* changes the loop, the thread, the posted stop or the sessions of the
\* other.
C26_IndependentManagers ==
    [][/\ (loop' # 0 /\ peer'.loop # 0) => loop' # peer'.loop
       /\ \A i \in 1..Len(sessions') : sessions'[i] = loop' /\ loop' # 0
       /\ \A i \in 1..Len(peer'.sessions) :
             peer'.sessions[i] = peer'.loop /\ peer'.loop # 0
       /\ thread' = "exited" => stops' > 0
       /\ peer'.thread = "exited" => peer'.stops > 0
       /\ ManagerStep
             => /\ peer'.loop = peer.loop /\ peer'.thread = peer.thread
                /\ peer'.stop_posted = peer.stop_posted
                /\ peer'.sessions = peer.sessions
       /\ PeerStep
             => UNCHANGED <<loop, thread, stop_posted, sessions>>]_vars

\* both instances have returned a session, each bound to its own loop; the
\* first instance has been stopped and its worker thread has exited, while
\* the worker thread of the second still runs its loop
C26_Witness ==
    /\ Len(sessions) > 0
    /\ Len(peer.sessions) > 0
    /\ loop # peer.loop
    /\ thread = "exited"
    /\ tpc = [t \in LoopThreads |-> "idle"]
    /\ peer.thread = "running"
    /\ peer.stops = 0

(* ------------------------------- C27 ---------------------------------- *)

\* C27 (registration precedes send): at the step that writes a request to
\* the stream its id is in __non_data_events with the event clear, and at
\* the step in which the message loop handles the first reply to a request
\* the id is in __non_data_events, so the lookup succeeds.
C27_RegistrationPrecedesSend ==
    [][/\ \A c \in Callers :
             (/\ pc[c] = "send" /\ pc'[c] # "send"
              /\ wire' # wire /\ wire'[Len(wire')].kind = "req")
                => /\ wire'[Len(wire')].id = msgid[c]
                   /\ msgid[c] \in DOMAIN non_data_events
                   /\ ~non_data_events[msgid[c]]
       /\ \A id \in IdRange :
             (replied[id] = 0 /\ replied'[id] = 1)
                => /\ id \in DOMAIN non_data_events
                   /\ message_loop' = "dispatching"]_vars

\* the reply to one request has been handled while its caller had not yet
\* resumed after the write, and the other caller has registered its id and
\* not yet written its request
C27_Witness ==
    \E c, d \in Callers :
        /\ pc[c] = "await"
        /\ replied[msgid[c]] = 1
        /\ raised[msgid[c]] = 1
        /\ msgid[c] \in DOMAIN non_data_events
        /\ message_loop = "dispatching"
        /\ op[d] = "request" /\ pc[d] = "send"
        /\ msgid[d] \in DOMAIN non_data_events
        /\ msgid[d] \notin SentRequests

(* ------------------------------- C28 ---------------------------------- *)

\* C28 (unmatched replies are dropped), as claimed: the step in which the
\* message loop handles a ctrl or meta reply whose id is not in
\* __non_data_events posts no ev.set and leaves __non_data_events and
\* __non_data_responses as they were.
C28_UnmatchedDropped ==
    [][\A id \in ReplyIds :
          (replied'[id] # replied[id] /\ id \notin DOMAIN non_data_events)
             => UNCHANGED <<non_data_events, non_data_responses, set_posted,
                            raised>>]_vars

(* ------------------------------- C29 ---------------------------------- *)

\* no caller is inside an operation
NoCallInProgress == \A c \in Callers : pc[c] \in {"idle", "done"}

\* C29 (the correlation table holds exactly the in-flight requests), as
\* claimed: the id of a call that has ended with its reply, returned or
\* raised as Rejected or server error, is in neither __non_data_events nor
\* __non_data_responses, and both are empty whenever no call is in progress.
C29_TableHoldsInFlight ==
    /\ \A c \in Callers :
          (/\ op[c] = "request" /\ pc[c] = "done"
           /\ ret[c].outcome \in ReplyOutcomes)
              => /\ msgid[c] \notin DOMAIN non_data_events
                 /\ msgid[c] \notin DOMAIN non_data_responses
    /\ NoCallInProgress
          => /\ DOMAIN non_data_events = {}
             /\ DOMAIN non_data_responses = {}

(* ------------------------------- C30 ---------------------------------- *)

\* an envelope with no case populated, or with more than one request case
Malformed(cases) ==
    cases = {} \/ Cardinality(cases \cap RequestFields) > 1

\* C30 (malformed envelope): a __send_message call handed an envelope with
\* no case populated, or with more than one request case, ends with
\* RuntimeError at __set_message_id: that step registers no event and
\* writes nothing, and the call never gets to the write or to the wait.
C30_MalformedEnvelope ==
    [][\A c \in Callers :
          (call[c].name = "send" /\ Malformed(call[c].cases))
             => /\ pc'[c] \notin {"send", "await", "pop"}
                /\ (pc[c] = "stamp" /\ pc'[c] # "stamp")
                      => /\ pc'[c] = "done"
                         /\ ret'[c].outcome = "RuntimeError"
                         /\ UNCHANGED <<non_data_events, non_data_responses,
                                        wire>>]_vars

\* one call was handed an empty envelope and the other one with two request
\* cases; both were given an id and have raised, with nothing registered
\* and only the ClientHi on the stream
C30_Witness ==
    \E c, d \in Callers :
        /\ call[c].name = "send" /\ call[c].cases = {}
        /\ pc[c] = "done" /\ ret[c].text = "NoTypes"
        /\ call[d].name = "send" /\ call[d].cases = {"sub", "pub"}
        /\ pc[d] = "done" /\ ret[d].text = "TooMany"
        /\ Len(issued) = 2
        /\ DOMAIN non_data_events = {}
        /\ Len(wire) = 1

(* ------------------------------- C31 ---------------------------------- *)

\* a step of the message loop, on the worker thread: a message is received
\* and its handler run, or __handle_data_msg goes on
MessageLoopStep ==
    replied' # replied \/ delivered' # delivered \/ data_pc' # data_pc

\* C31 (signals are raised only on their owner): the asyncio.Event of an id
\* becomes set only in a step that runs an ev.set posted to the event's
\* loop, the same holds for __data_event, and no step of the message loop
\* changes the flag of an event: it only posts.
C31_SignalsOnOwner ==
    [][/\ \A id \in DOMAIN non_data_events \cap DOMAIN non_data_events' :
             (~non_data_events[id] /\ non_data_events'[id])
                => set_posted'[id] = set_posted[id] - 1
       /\ (~data_event /\ data_event')
             => data_set_posted' = data_set_posted - 1
       /\ MessageLoopStep
             => /\ UNCHANGED <<non_data_events, data_event>>
                /\ \A id \in ReplyIds : set_posted'[id] >= set_posted[id]
                /\ data_set_posted' >= data_set_posted]_vars

\* the message loop has handled a data message and a reply; the ev.set of
\* __data_event has run on its loop and the one for the reply is posted and
\* not yet run, its event still clear
C31_Witness ==
    \E c \in Callers :
        /\ pc[c] = "await"
        /\ set_posted[msgid[c]] = 1
        /\ ~non_data_events[msgid[c]]
        /\ data_event
        /\ data_set_posted = 0
        /\ Len(delivered) = 1
        /\ data_pc = "idle"

(* ------------------------------- C32 ---------------------------------- *)

\* C32 (push and reply paths do not interfere): the step that receives a
\* data message appends that one message to __data_messages and never waits
\* on the queue, the rest of the handler posts one ev.set for __data_event,
\* and both leave __non_data_events, __non_data_responses and the posted
\* sets of the requests as they were; the step that handles a ctrl or meta
\* reply leaves __data_messages and __data_event, and what is posted for it,
\* as they were.
C32_PushReplyFrames ==
    [][/\ delivered' # delivered
             => /\ data_messages' =
                      Append(data_messages, delivered'[Len(delivered')])
                /\ data_pc' = "signal"
                /\ UNCHANGED <<non_data_events, non_data_responses,
                               set_posted, raised, message_loop>>
       /\ (data_pc = "signal" /\ data_pc' = "idle")
             => /\ data_set_posted' = data_set_posted + 1
                /\ UNCHANGED <<data_messages, non_data_events,
                               non_data_responses, set_posted, raised,
                               message_loop>>
       /\ replied' # replied
             => UNCHANGED <<data_messages, data_event, data_set_posted,
                            data_pc, delivered>>]_vars

\* a reply was handled between two data messages: the queue holds both, and
\* the reply is stored for its caller, which has not woken yet
C32_Witness ==
    \E c \in Callers :
        /\ pc[c] = "await"
        /\ msgid[c] \in DOMAIN non_data_responses
        /\ reply_pushes[msgid[c]] = 1
        /\ Len(delivered) = 2
        /\ data_messages = delivered
        /\ data_pc = "idle"
        /\ data_set_posted = 2

(* ------------------------------- C33 ---------------------------------- *)

\* C33 (response liveness): when the message loop has handled a reply
\* bearing the id of a request whose caller is at its wait, that call
\* eventually ends, by returning or raising, as long as the caller's loop
\* keeps running.
C33_ResponseLiveness ==
    \A c \in Callers :
        (pc[c] = "await" /\ replied[msgid[c]] >= 1) ~> (pc[c] = "done")

\* a call has ended with its reply although the message loop has ended
\* since, on a second reply to the other caller, who had woken already
C33_Witness ==
    \E c, d \in Callers :
        /\ pc[c] = "done"
        /\ ret[c].outcome \in ReplyOutcomes
        /\ replied[msgid[c]] = 1
        /\ pc[d] = "pop"
        /\ replied[msgid[d]] = 2
        /\ message_loop = "failed"

(* ------------------------------- C39 ---------------------------------- *)

\* C39 (the response is stored before the signal is raised): for every id
\* in __non_data_events whose event is set, or has an ev.set posted, a
\* response is stored under the id; a caller that has woken from its wait
\* finds its response, and no call ends with the KeyError of the pop.
C39_StoredBeforeRaised ==
    /\ \A id \in DOMAIN non_data_events :
          (non_data_events[id] \/ set_posted[id] > 0)
             => id \in DOMAIN non_data_responses
    /\ \A c \in Callers :
          /\ pc[c] = "pop" => msgid[c] \in DOMAIN non_data_responses
          /\ pc[c] = "done" => ret[c].outcome # "KeyError"

\* a caller has woken and removed its event, its response is stored, and
\* the ev.set posted for a second reply to it has not run yet
C39_Witness ==
    \E c \in Callers :
        /\ pc[c] = "pop"
        /\ msgid[c] \in DOMAIN non_data_responses
        /\ replied[msgid[c]] = 2
        /\ set_posted[msgid[c]] = 1

(* ------------------------------- C34 ---------------------------------- *)

\* C34 (lazy start is ready for first use), as claimed: on a session that
\* new_session has returned, with no stop() called, no operation ends with
\* the RuntimeError 'Supplied event loop is not running'.
C34_LazyStartReady ==
    \A c \in Callers :
        (pc[c] = "done" /\ stops = 0 /\ Len(sessions) > 0)
            => ~(ret[c].outcome = "RuntimeError" /\ ret[c].text = NotRunning)

(* ------------------------------- C35 ---------------------------------- *)

\* C35 (the dispatch loop survives every inbound envelope), as claimed:
\* once the reply to ClientHi has been received, and as long as no close()
\* has been called, the message loop is dispatching, whatever messages it
\* has been handed.
C35_LoopSurvives ==
    (/\ hello_replies = 1
     /\ ~closed
     /\ \A c \in Callers : op[c] # "close")
        => message_loop = "dispatching"

(* ------------------------------- C36 ---------------------------------- *)

\* C36 (a failed send leaves no trace in the correlation table), as
\* claimed: when a request that expects a reply has ended with an error of
\* the send itself (the envelope is malformed, the stream is gone, the
\* write fails), the table has no entry for the id the request took.
C36_FailedSendLeavesNoTrace ==
    \A c \in Callers :
        (/\ op[c] = "request"
         /\ pc[c] = "done"
         /\ ret[c].outcome \in {"RuntimeError", "AttributeError", "StreamError"}
         /\ msgid[c] # NoId)
            => msgid[c] \notin DOMAIN non_data_events

(* ------------------------------- C37 ---------------------------------- *)

\* C37 (close() is safe in every pre-Closed state), as claimed: a close()
\* that has ended, whatever the state of the session it was called in (never
\* connected and a second close() included), has completed without raising
\* and has left the session with no stream and no running dispatch task.
C37_CloseIsSafe ==
    \A c \in Callers :
        (op[c] = "close" /\ pc[c] = "done")
            => /\ ret[c].outcome = "ok"
               /\ stream = "none"
               /\ message_loop \notin {"scheduled", "hello_sent", "dispatching"}

(* ------------------------------- C38 ---------------------------------- *)

\* a stop() that found the loop has returned
StopReturned ==
    /\ stops > 0
    /\ stop_posted
    /\ \A t \in LoopThreads : tpc[t] \notin {"stop_join", "stop_error"}

\* C38 (no restart after stop), as claimed: once stop() has returned, no
\* step creates a second loop or a second thread, a new_session that
\* returns hands out a session bound to the loop that was stopped, and an
\* operation that reaches the is_running test of a session not yet
\* connected ends there with the RuntimeError 'Supplied event loop is not
\* running' and is never left waiting for the handshake.
C38_NoRestartAfterStop ==
    [][StopReturned =>
        /\ loops_created' <= 1
        /\ threads_created' <= 1
        /\ Len(sessions') > Len(sessions)
              => sessions'[Len(sessions')] = loop
        /\ \A c \in Callers :
              (pc[c] = "ensure_start" /\ pc'[c] # "ensure_start")
                 => /\ pc'[c] = "done"
                    /\ ret'[c].outcome = "RuntimeError"
                    /\ ret'[c].text = NotRunning
                    /\ schedules' = schedules]_vars

====
